---- MODULE Spec2Model ----
(***************************************************************************)
(* CSP timetable generator: the backtracking solver (solver.py), the hard  *)
(* constraints (constraints.py), the entity model (models.py) and the      *)
(* domain generator (problem_builder.py, data_loader.py).                  *)
(*                                                                         *)
(* Spec      : a TimetableSolver object and one solve call, as main.py and *)
(*             gui.py use it.                                              *)
(* LiveSpec  : Spec plus the fairness of a running solve call.             *)
(* ReuseSpec : a TimetableSolver object on which solve is called again.    *)
(* SpecBuild : a ProblemBuilder over the tables of a DataLoader:           *)
(*             build_lectures_for_sections, then build_domains.            *)
(* SpecCheck : calls of the methods of TimetableConstraints on given       *)
(*             assignments (constraints.py).                               *)
(* SpecScore : calls of SoftConstraints on the timetables a caller holds   *)
(*             (soft_constraints.py).                                      *)
(* SpecRooms : calls of SoftConstraints on timetables over a table of      *)
(*             rooms and timeslots (the room distance penalty).            *)
(* SpecGui   : the window of gui.py: the Generate and Stop buttons, the    *)
(*             solver threads and the handlers of check_queue.             *)
(***************************************************************************)
EXTENDS Integers, Sequences, FiniteSets, TLC

VARIABLES
    \* ---- TimetableSolver object and the running solve call ----
    lectures,      \* self.lectures: sequence of Lecture records
    domains,       \* self.domains: dict var_name -> sequence of triples
    assignment,    \* self.assignment: dict var_name -> triple
    iterations,    \* self.iterations
    timeout,       \* argument of the running solve call
    pc,            \* position of the control: idle, call, loop, ret, done (off: no solver)
    stack,         \* frames of the _backtrack calls that are inside their for loop
    rv,            \* value a _backtrack call has just returned
    result,        \* value the last solve call returned
    calls,         \* number of solve calls made on the object
    timedOut,      \* history: the running call has taken the timeout branch
    maxAssigned,   \* history: largest len(self.assignment) during the call
    commits,       \* history: number of values committed during the call
    failures,      \* history: terminal states of the calls that returned None
    handed,        \* history: the dict an earlier solve call returned to its caller
    \* ---- ProblemBuilder / DataLoader ----
    courses,       \* loader.courses rows
    instructors,   \* loader.instructors rows
    rooms,         \* loader.rooms rows
    timeslots,     \* loader.timeslots rows
    blectures,     \* builder.lectures
    sections,      \* loader.sections rows
    bdomains,      \* builder.domains
    requested,     \* history: the section_ids given to build_lectures_for_sections
    bpc,           \* position of the builder: new, lectures, built (off: no builder)
    \* ---- TimetableConstraints calls ----
    cargs,         \* the arguments assignment and lectures of the calls
    cret,          \* the last call: method, var_name, value and what it returned
    \* ---- SoftConstraints calls ----
    sargs,         \* the assignment the caller holds, the order of its keys, the lectures,
                   \* and the number of the solve run that gave the assignment
    sret,          \* what the last call on sargs returned (none: not called yet)
    sprev,         \* history: the call before it, its assignment and what it returned
    sframe,        \* the running call: its method, its position, its local score and terms
    \* ---- TimetableGUI ----
    self,          \* lectures, solver, solution, generate_btn, stop_btn, message_queue
    threads,       \* the threads started on run_solver: position and outcome of each,
                   \* and whether its builder made no lecture
    shown,         \* history: the message the last on_solution_found handles, and the
                   \* threads whose lectures, solver and solution it has read
    main           \* the main thread: its position in check_queue, whether the queue
                   \* is still polled, the reads done in the running loop and the
                   \* timetable the running statement holds

solverVars == <<lectures, domains, assignment, iterations, timeout, pc,
                stack, rv, result, calls, timedOut, maxAssigned, commits, failures,
                handed>>
builderVars == <<courses, instructors, rooms, timeslots, sections, blectures, bdomains,
                 requested, bpc>>
checkVars == <<cargs, cret>>
scoreVars == <<sargs, sret, sprev, sframe>>
guiVars == <<self, threads, shown, main>>
vars == <<solverVars, builderVars, checkVars, scoreVars, guiVars>>

----------------------------------------------------------------------------
(* Bounds *)

MaxLectures == 2    \* longest lecture list given to a solver
MaxCalls == 2       \* solve calls made on one solver object (ReuseSpec)
MaxRequest == 2     \* longest list of section ids given to a builder (SpecBuild)
MaxThreads == 2     \* threads started by the Generate button (SpecGui)
MaxItems == 2       \* items of a timetable that display_timetable iterates (SpecGui)
MaxRuns == 2        \* solve runs whose solution the caller scores (SpecScore)

----------------------------------------------------------------------------
(* models.py *)

\* Lecture.get_variable_name: f"{section_id}_{course_id}_L{lecture_number}"
get_variable_name(lecture) ==
    lecture.section_id \o "_" \o lecture.course_id \o "_L" \o ToString(lecture.lecture_number)

Lecture(course, section, number) ==
    [course_id |-> course, section_id |-> section, lecture_number |-> number]

----------------------------------------------------------------------------
(* constraints.py *)

\* The empty dict.
EmptyAssignment == [v \in {} |-> <<>>]

\* Fields of a value (timeslot, room, instructor).
TimeslotOf(value) == value[1]
RoomOf(value) == value[2]
InstructorOf(value) == value[3]

\* In the operators below a local variable of the code is bound with
\* "\E x \in {e} : ...", which names the value of e once.

\* TimetableConstraints.no_instructor_conflict: group the keys by
\* (instructor, timeslot); false when a group has more than one key.
no_instructor_conflict(a) ==
    LET key(v) == <<InstructorOf(a[v]), TimeslotOf(a[v])>>
    IN  \E instructor_schedule \in
              {[k \in {key(v) : v \in DOMAIN a} |-> {v \in DOMAIN a : key(v) = k}]} :
            \A k \in DOMAIN instructor_schedule : ~(Cardinality(instructor_schedule[k]) > 1)

\* TimetableConstraints.no_room_conflict: the same over (room, timeslot).
no_room_conflict(a) ==
    LET key(v) == <<RoomOf(a[v]), TimeslotOf(a[v])>>
    IN  \E room_schedule \in
              {[k \in {key(v) : v \in DOMAIN a} |-> {v \in DOMAIN a : key(v) = k}]} :
            \A k \in DOMAIN room_schedule : ~(Cardinality(room_schedule[k]) > 1)

\* var_to_section of no_student_conflict and get_conflicts: the dict is filled
\* in list order, so a later lecture of the same name overwrites an earlier one.
var_to_section(lecs) ==
    LET last(n) == CHOOSE i \in 1..Len(lecs) :
                      /\ get_variable_name(lecs[i]) = n
                      /\ \A j \in 1..Len(lecs) : get_variable_name(lecs[j]) = n => j <= i
    IN  [n \in {get_variable_name(lecs[i]) : i \in 1..Len(lecs)} |-> lecs[last(n)].section_id]

\* TimetableConstraints.no_student_conflict: keys unknown to var_to_section are
\* skipped, the others are grouped by (section, timeslot).
no_student_conflict(a, lecs) ==
    \E vts \in {var_to_section(lecs)} :
        LET known == {v \in DOMAIN a : v \in DOMAIN vts}
            key(v) == <<vts[v], TimeslotOf(a[v])>>
        IN  \E section_schedule \in
                  {[k \in {key(v) : v \in known} |-> {v \in known : key(v) = k}]} :
                \A k \in DOMAIN section_schedule : ~(Cardinality(section_schedule[k]) > 1)

\* TimetableConstraints.check_all_constraints
check_all_constraints(a, lecs) ==
    /\ no_instructor_conflict(a)
    /\ no_room_conflict(a)
    /\ no_student_conflict(a, lecs)

\* temp_assignment = assignment.copy(); temp_assignment[var_name] = value
Extend(a, var, value) ==
    [v \in DOMAIN a \cup {var} |-> IF v = var THEN value ELSE a[v]]

\* del assignment[var_name]
Remove(a, var) == [v \in DOMAIN a \ {var} |-> a[v]]

\* is_consistent that checks the assignment without the new value.
is_consistent_stale(var, value, a, lecs) == check_all_constraints(a, lecs)

\* is_consistent that tests the new pair against each other key only.
is_consistent_newpair(var, value, a, lecs) ==
    \A w \in DOMAIN a \ {var} :
        check_all_constraints([v \in {var, w} |-> IF v = var THEN value ELSE a[w]], lecs)

\* TimetableConstraints.is_consistent
is_consistent(var, value, a, lecs) ==
    \E temp_assignment \in {Extend(a, var, value)} :
        check_all_constraints(temp_assignment, lecs)

\* TimetableConstraints.get_conflicts: one record per group of more than one
\* key, for instructors, rooms and sections (the text of each message is
\* kept as its fields; the section groups skip a falsy section id).
get_conflicts(a, lecs) ==
    LET ikey(v) == <<InstructorOf(a[v]), TimeslotOf(a[v])>>
        rkey(v) == <<RoomOf(a[v]), TimeslotOf(a[v])>>
        vts == var_to_section(lecs)
        known == {v \in DOMAIN a : v \in DOMAIN vts /\ vts[v] # ""}
        skey(v) == <<vts[v], TimeslotOf(a[v])>>
        group(kind, k, members) == [kind |-> kind, key |-> k, lectures_list |-> members]
        igroups == {group("Instructor", k, {v \in DOMAIN a : ikey(v) = k}) : k \in {ikey(v) : v \in DOMAIN a}}
        rgroups == {group("Room", k, {v \in DOMAIN a : rkey(v) = k}) : k \in {rkey(v) : v \in DOMAIN a}}
        sgroups == {group("Section", k, {v \in known : skey(v) = k}) : k \in {skey(v) : v \in known}}
    IN  {g \in igroups \cup rgroups \cup sgroups : Cardinality(g.lectures_list) > 1}

----------------------------------------------------------------------------
(* solver.py: helpers *)

\* None, and a dict, as the value of an Optional[Dict].
NoneResult == [isNone |-> TRUE, value |-> EmptyAssignment]
Some(a) == [isNone |-> FALSE, value |-> a]

\* The None of an Optional[str] variable name.
NoVar == "None"

\* [lecture.get_variable_name() for lecture in lectures]
VarNames(lecs) == [i \in 1..Len(lecs) |-> get_variable_name(lecs[i])]
NameSet(lecs) == {get_variable_name(lecs[i]) : i \in 1..Len(lecs)}

\* self.domains.get(var_name, [])
DomainsGet(doms, var) == IF var \in DOMAIN doms THEN doms[var] ELSE <<>>

\* len(self.assignment)
Size(a) == Cardinality(DOMAIN a)

\* The completeness test, one lecture short.
is_complete_offbyone(a, lecs) == Size(a) >= Len(lecs) - 1

\* _backtrack: len(self.assignment) == len(self.lectures)
is_complete(a, lecs) == Size(a) = Len(lecs)

\* sum(1 for value in domain if is_consistent(var_name, value, assignment, lectures))
Remaining(var, lecs, doms, a) ==
    LET domain == DomainsGet(doms, var)
    IN  Cardinality({i \in 1..Len(domain) : \E value \in {domain[i]} : is_consistent(var, value, a, lecs)})

\* _select_unassigned_variable without the count of remaining values.
select_first_unassigned(lecs, doms, a) ==
    LET unassigned == SelectSeq(VarNames(lecs), LAMBDA n : n \notin DOMAIN a)
    IN  IF Len(unassigned) = 0 THEN NoVar ELSE unassigned[1]

\* _select_unassigned_variable that replaces best_var on an equal count too.
select_last_min(lecs, doms, a) ==
    LET unassigned == SelectSeq(VarNames(lecs), LAMBDA n : n \notin DOMAIN a)
        remaining == [i \in 1..Len(unassigned) |-> Remaining(unassigned[i], lecs, doms, a)]
    IN  IF Len(unassigned) = 0 THEN NoVar
        ELSE unassigned[CHOOSE i \in 1..Len(remaining) :
                           /\ \A j \in 1..Len(remaining) : remaining[i] <= remaining[j]
                           /\ \A j \in (i + 1)..Len(remaining) : remaining[j] > remaining[i]]

\* TimetableSolver._select_unassigned_variable: the first unassigned name, in
\* list order, whose count of consistent values is the smallest (the loop
\* replaces best_var only on a strictly smaller count); None when no name is
\* unassigned.
select_unassigned_variable(lecs, doms, a) ==
    LET unassigned == SelectSeq(VarNames(lecs), LAMBDA n : n \notin DOMAIN a)
        counts(un) == [i \in 1..Len(un) |-> Remaining(un[i], lecs, doms, a)]
        first_min(remaining) ==
            CHOOSE i \in 1..Len(remaining) :
                /\ \A j \in 1..Len(remaining) : remaining[i] <= remaining[j]
                /\ \A j \in 1..(i - 1) : remaining[j] > remaining[i]
    IN  IF Len(unassigned) = 0 THEN NoVar
        ELSE CHOOSE best_var \in {unassigned[i] : i \in 1..Len(unassigned)} :
                \E un \in {unassigned} : \E remaining \in {counts(un)} :
                    best_var = un[first_min(remaining)]

\* The items of a list in the order that random.shuffle has drawn.
Shuffled(list, order) == [i \in 1..Len(list) |-> list[order[i]]]

\* _order_domain_values that shuffles the list it is given, not a copy.
order_domain_values_inplace(domain) ==
    {[returned |-> Shuffled(domain, order), argument |-> Shuffled(domain, order)] :
        order \in Permutations(1..Len(domain))}

\* TimetableSolver._order_domain_values: ordered = domain.copy(), then
\* random.shuffle(ordered), which can draw every order. A call gives the list
\* it returns and the items that it leaves in the list it was given, which
\* is the list of self.domains.
order_domain_values(domain) ==
    {[returned |-> Shuffled(domain, order), argument |-> domain] :
        order \in Permutations(1..Len(domain))}

\* The frame of a _backtrack call that is inside its for loop: the selected
\* variable, the list ordered_values and the number of its values the loop
\* has taken so far, with (history) the assignment a the call was entered with.
Frame(var, ordered, a) == [var_name |-> var, ordered_values |-> ordered, taken |-> 0, entry |-> a]

----------------------------------------------------------------------------
(* Problem instances given to TimetableSolver.__init__ *)

LecturePool == << Lecture("C1", "S1", 1), Lecture("C1", "S1", 2), Lecture("C1", "S2", 1) >>

\* Values: 1 and 2 share instructor and timeslot, 1 and 3 share room and
\* timeslot, 2 and 3 share only the timeslot (a conflict for two lectures of
\* one section, none for lectures of two sections).
ValuePool == << <<"TS1", "R1", "I1">>, <<"TS1", "R2", "I1">>, <<"TS1", "R1", "I2">> >>

\* The elements of a set of numbers in increasing order.
SortedSeq(S) == CHOOSE f \in [1..Cardinality(S) -> S] :
                    \A i, j \in 1..Cardinality(S) : i < j => f[i] < f[j]

\* Lecture lists of at most MaxLectures lectures (a lecture may occur twice).
LectureLists ==
    LET IndexLists == UNION {{s \in [1..n -> 1..Len(LecturePool)] :
                                \A i \in 1..(n - 1) : s[i] <= s[i + 1]} : n \in 0..MaxLectures}
    IN  {[i \in DOMAIN s |-> LecturePool[s[i]]] : s \in IndexLists}

\* Domains: the lists of distinct values of the pool, in the order of the pool.
DomainChoices ==
    {[i \in 1..Cardinality(T) |-> ValuePool[SortedSeq(T)[i]]] : T \in SUBSET (1..Len(ValuePool))}

\* solve(self, timeout: int = 300)
DefaultTimeout == 300

\* The timeouts a caller passes: a negative one and the default.
Timeouts == {-1, DefaultTimeout}

----------------------------------------------------------------------------
(* The objects that are not observed *)

\* No call of a TimetableConstraints method has returned yet.
NoCall == [method |-> "none", var |-> NoVar, value |-> <<>>, result |-> FALSE, conflicts |-> {}]

\* No TimetableConstraints method is observed.
CheckOff == cargs = [assignment |-> EmptyAssignment, lectures |-> <<>>] /\ cret = NoCall

\* What a call of SoftConstraints returns: the score and its four terms (the
\* score and the balance bonus in thousandths), or the exception it raises.
NoScore == [status |-> "none", method |-> "none", score |-> 0, gap |-> 0, balance |-> 0,
            time |-> 0, room |-> 0]
Raised(method) == [status |-> "ValueError", method |-> method, score |-> 0, gap |-> 0,
                   balance |-> 0, time |-> 0, room |-> 0]

\* No call of SoftConstraints is running.
NoFrame == [pc |-> "none", method |-> "none", score |-> 0, gap |-> 0, balance |-> 0,
            time |-> 0, room |-> 0]

\* No SoftConstraints object is observed.
ScoreOff ==
    /\ sargs = [assignment |-> EmptyAssignment, lectures |-> <<>>, keys |-> <<>>, run |-> 0]
    /\ sret = NoScore
    /\ sprev = [assignment |-> EmptyAssignment, ret |-> NoScore]
    /\ sframe = NoFrame

\* TimetableGUI.__init__: no lectures, solver or solution (None is thread 0),
\* no thread, an empty queue. A solution is None, the empty dict or a
\* timetable with items.
NoSolution == [thread |-> 0, value |-> "None"]
NothingShown == [message |-> 0, lectures |-> {}, solver |-> {}, solution |-> {}]
Idle == [pc |-> "idle", polling |-> TRUE, step |-> 0, solution |-> NoSolution]
NewGui(generate) ==
    /\ self = [lectures |-> 0, solver |-> 0, solution |-> NoSolution,
               generate_btn |-> generate, stop_btn |-> "disabled", message_queue |-> <<>>]
    /\ threads = <<>>
    /\ shown = NothingShown
    /\ main = Idle

\* No window is observed.
GuiOff == NewGui("disabled")

----------------------------------------------------------------------------
(* ProblemBuilder state while only the solver is observed *)

BuilderOff ==
    /\ courses = <<>> /\ instructors = <<>> /\ rooms = <<>> /\ timeslots = <<>>
    /\ sections = <<>> /\ blectures = <<>> /\ bdomains = EmptyAssignment
    /\ requested = <<>> /\ bpc = "off"

----------------------------------------------------------------------------
(* solver.py: TimetableSolver *)

\* No solve call has returned a dict yet. A dict that was returned is held by
\* the caller (held); it is the object self.assignment as long as solve has
\* not bound another one (alias), value is what it held when it was returned.
NothingHanded == [held |-> FALSE, alias |-> FALSE, value |-> EmptyAssignment]

\* What the caller reads in the dict it holds.
HandedValue == IF handed.alias THEN assignment ELSE handed.value

\* TimetableSolver.__init__
SolverInit ==
    /\ lectures \in LectureLists
    /\ domains \in UNION {[K -> DomainChoices] : K \in SUBSET NameSet(lectures)}
    /\ assignment = EmptyAssignment
    /\ iterations = 0
    /\ timeout = 0
    /\ pc = "idle"
    /\ stack = <<>>
    /\ rv = NoneResult
    /\ result = NoneResult
    /\ calls = 0
    /\ timedOut = FALSE
    /\ maxAssigned = 0
    /\ commits = 0
    /\ failures = {}
    /\ handed = NothingHanded

Init == SolverInit /\ BuilderOff /\ CheckOff /\ ScoreOff /\ GuiOff

\* solve with self.assignment.clear() in the place of self.assignment = {}.
SolveEnter_clear(t) ==
    /\ timeout' = t
    /\ iterations' = 0
    /\ assignment' = EmptyAssignment
    /\ pc' = "call"
    /\ rv' = NoneResult
    /\ result' = NoneResult
    /\ calls' = calls + 1
    /\ timedOut' = FALSE
    /\ maxAssigned' = 0
    /\ commits' = 0
    /\ UNCHANGED <<lectures, domains, stack, failures, handed, builderVars, checkVars,
                   scoreVars, guiVars>>

\* TimetableSolver.solve, up to the call of _backtrack: self.assignment = {}
\* binds a new dict, the dict handed out before is no longer self.assignment.
SolveEnter(t) ==
    /\ timeout' = t
    /\ iterations' = 0
    /\ assignment' = EmptyAssignment
    /\ pc' = "call"
    /\ rv' = NoneResult
    /\ result' = NoneResult
    /\ calls' = calls + 1
    /\ timedOut' = FALSE
    /\ maxAssigned' = 0
    /\ commits' = 0
    /\ handed' = [handed EXCEPT !.alias = FALSE]
    /\ UNCHANGED <<lectures, domains, stack, failures, builderVars, checkVars, scoreVars, guiVars>>

\* The solve call made on a new solver object.
Solve(t) ==
    /\ pc = "idle"
    /\ SolveEnter(t)

\* A further solve call on a solver object whose previous call has returned.
SolveAgain(t) ==
    /\ pc = "done"
    /\ calls < MaxCalls
    /\ SolveEnter(t)

\* A reading of a clock that was set back behind self.start_time.
SetBack == -2

\* time.time() - self.start_time as a timeout test of _backtrack can read it:
\* no time at all, more than the timeout, or less than no time. time.time() is
\* the clock of the system, which can be set back between two readings, so a
\* reading can be lower than the one before it.
Readings == {SetBack, 0, timeout + 1}

\* _backtrack, timeout branch: time.time() - self.start_time > timeout.
BacktrackTimeout ==
    /\ pc = "call"
    /\ \E now \in Readings : now > timeout
    /\ iterations' = iterations + 1
    /\ rv' = NoneResult
    /\ pc' = "ret"
    /\ timedOut' = TRUE
    /\ UNCHANGED <<lectures, domains, assignment, timeout, stack, result,
                   calls, maxAssigned, commits, failures, handed, builderVars, checkVars, scoreVars, guiVars>>

\* _backtrack, completeness branch: return self.assignment.
BacktrackComplete ==
    /\ pc = "call"
    /\ \E now \in Readings : ~(now > timeout)
    /\ is_complete(assignment, lectures)
    /\ iterations' = iterations + 1
    /\ rv' = Some(assignment)
    /\ pc' = "ret"
    /\ UNCHANGED <<lectures, domains, assignment, timeout, stack, result,
                   calls, timedOut, maxAssigned, commits, failures, handed, builderVars, checkVars, scoreVars, guiVars>>

\* _backtrack, var_name is None: return None.
BacktrackNoVariable ==
    /\ pc = "call"
    /\ \E now \in Readings : ~(now > timeout)
    /\ ~is_complete(assignment, lectures)
    /\ select_unassigned_variable(lectures, domains, assignment) = NoVar
    /\ iterations' = iterations + 1
    /\ rv' = NoneResult
    /\ pc' = "ret"
    /\ UNCHANGED <<lectures, domains, assignment, timeout, stack, result,
                   calls, timedOut, maxAssigned, commits, failures, handed, builderVars, checkVars, scoreVars, guiVars>>

\* self.domains after a call that left the items in the list it got from
\* self.domains.get(var_name, []): the list of the dict, or a new empty list.
DomainsWith(var_name, items) ==
    IF var_name \in DOMAIN domains THEN [domains EXCEPT ![var_name] = items] ELSE domains

\* _backtrack, a variable is selected: _order_domain_values is called on the
\* list of its domain and the for loop over the list it returns is entered.
BacktrackExpand ==
    /\ pc = "call"
    /\ \E now \in Readings : ~(now > timeout)
    /\ ~is_complete(assignment, lectures)
    /\ \E var_name \in {select_unassigned_variable(lectures, domains, assignment)} :
           /\ var_name # NoVar
           /\ \E call \in order_domain_values(DomainsGet(domains, var_name)) :
                 /\ stack' = Append(stack, Frame(var_name, call.returned, assignment))
                 /\ domains' = DomainsWith(var_name, call.argument)
    /\ iterations' = iterations + 1
    /\ pc' = "loop"
    /\ UNCHANGED <<lectures, assignment, timeout, rv, result,
                   calls, timedOut, maxAssigned, commits, failures, handed, builderVars, checkVars, scoreVars, guiVars>>

Top == stack[Len(stack)]
Pop == SubSeq(stack, 1, Len(stack) - 1)

\* for value in ordered_values: the next value is taken.
Take == [stack EXCEPT ![Len(stack)].taken = @ + 1]

\* The for loop of the innermost call has a next value, and the value.
HasNext == Top.taken < Len(Top.ordered_values)
NextValue == Top.ordered_values[Top.taken + 1]

\* for loop of _backtrack: the value is consistent, it is assigned and
\* _backtrack is called.
LoopCommit ==
    /\ pc = "loop"
    /\ HasNext
    /\ \E value \in {NextValue} :
          /\ is_consistent(Top.var_name, value, assignment, lectures)
          /\ assignment' = Extend(assignment, Top.var_name, value)
          /\ stack' = Take
    /\ pc' = "call"
    /\ maxAssigned' = IF Size(assignment') > maxAssigned THEN Size(assignment') ELSE maxAssigned
    /\ commits' = commits + 1
    /\ UNCHANGED <<lectures, domains, iterations, timeout, rv, result,
                   calls, timedOut, failures, handed, builderVars, checkVars, scoreVars, guiVars>>

\* for loop of _backtrack: the value is not consistent, the next one is taken.
LoopSkip ==
    /\ pc = "loop"
    /\ HasNext
    /\ \E value \in {NextValue} :
          /\ ~is_consistent(Top.var_name, value, assignment, lectures)
          /\ stack' = Take
    /\ UNCHANGED <<lectures, domains, assignment, iterations, timeout, pc, rv,
                   result, calls, timedOut, maxAssigned, commits, failures, handed, builderVars, checkVars, scoreVars, guiVars>>

\* for loop of _backtrack is over: return None.
LoopExhausted ==
    /\ pc = "loop"
    /\ ~HasNext
    /\ stack' = Pop
    /\ rv' = NoneResult
    /\ pc' = "ret"
    /\ UNCHANGED <<lectures, domains, assignment, iterations, timeout, result,
                   calls, timedOut, maxAssigned, commits, failures, handed, builderVars, checkVars, scoreVars, guiVars>>

\* The recursive call returned a result: return result.
ReturnResult ==
    /\ pc = "ret"
    /\ Len(stack) > 0
    /\ ~rv.isNone
    /\ stack' = Pop
    /\ UNCHANGED <<lectures, domains, assignment, iterations, timeout, pc, rv,
                   result, calls, timedOut, maxAssigned, commits, failures, handed, builderVars, checkVars, scoreVars, guiVars>>

\* _backtrack that returns the failure of the recursive call at once.
ReturnUndo_giveup ==
    /\ pc = "ret"
    /\ Len(stack) > 0
    /\ rv.isNone
    /\ assignment' = Remove(assignment, Top.var_name)
    /\ stack' = Pop
    /\ UNCHANGED <<lectures, domains, iterations, timeout, pc, rv, result,
                   calls, timedOut, maxAssigned, commits, failures, handed, builderVars, checkVars, scoreVars, guiVars>>

\* _backtrack without del self.assignment[var_name].
ReturnUndo_nodelete ==
    /\ pc = "ret"
    /\ Len(stack) > 0
    /\ rv.isNone
    /\ pc' = "loop"
    /\ UNCHANGED <<lectures, domains, assignment, iterations, timeout, stack, rv,
                   result, calls, timedOut, maxAssigned, commits, failures, handed, builderVars,
                   checkVars, scoreVars, guiVars>>

\* The recursive call returned None: del self.assignment[var_name], and the
\* for loop goes on.
ReturnUndo ==
    /\ pc = "ret"
    /\ Len(stack) > 0
    /\ rv.isNone
    /\ assignment' = Remove(assignment, Top.var_name)
    /\ pc' = "loop"
    /\ UNCHANGED <<lectures, domains, iterations, timeout, stack, rv, result,
                   calls, timedOut, maxAssigned, commits, failures, handed, builderVars, checkVars, scoreVars, guiVars>>

\* The state in which a search ends (section 4.4 of the design).
TerminalOf(r, timed) ==
    IF ~r.isNone THEN "solved" ELSE IF timed THEN "timed-out" ELSE "exhausted"

\* TimetableSolver.solve: the outermost _backtrack returned, return result.
SolveReturn ==
    /\ pc = "ret"
    /\ Len(stack) = 0
    /\ result' = rv
    /\ pc' = "done"
    /\ failures' = IF rv.isNone
                   THEN failures \cup {[result |-> rv, state |-> TerminalOf(rv, timedOut)]}
                   ELSE failures
    /\ handed' = IF rv.isNone THEN handed
                 ELSE [held |-> TRUE, alias |-> TRUE, value |-> rv.value]
    /\ UNCHANGED <<lectures, domains, assignment, iterations, timeout, stack, rv,
                   calls, timedOut, maxAssigned, commits, builderVars, checkVars, scoreVars, guiVars>>

\* The steps of a running solve call.
Run ==
    \/ BacktrackTimeout
    \/ BacktrackComplete
    \/ BacktrackNoVariable
    \/ BacktrackExpand
    \/ LoopCommit
    \/ LoopSkip
    \/ LoopExhausted
    \/ ReturnResult
    \/ ReturnUndo
    \/ SolveReturn

Next ==
    \/ \E t \in Timeouts : Solve(t)
    \/ BacktrackTimeout
    \/ BacktrackComplete
    \/ BacktrackNoVariable
    \/ BacktrackExpand
    \/ LoopCommit
    \/ LoopSkip
    \/ LoopExhausted
    \/ ReturnResult
    \/ ReturnUndo
    \/ SolveReturn

Spec == Init /\ [][Next]_vars

\* A running solve call is executed to its end; nothing obliges a caller to
\* call solve.
LiveSpec == Init /\ [][Next]_vars /\ WF_vars(Run)

\* Solver objects whose domains hold at most one value, called more than once.
InitReuse ==
    /\ Init
    /\ \A v \in DOMAIN domains : Len(domains[v]) <= 1

NextReuse ==
    \/ \E t \in Timeouts : Solve(t)
    \/ \E t \in Timeouts : SolveAgain(t)
    \/ BacktrackTimeout
    \/ BacktrackComplete
    \/ BacktrackNoVariable
    \/ BacktrackExpand
    \/ LoopCommit
    \/ LoopSkip
    \/ LoopExhausted
    \/ ReturnResult
    \/ ReturnUndo
    \/ SolveReturn

ReuseSpec == InitReuse /\ [][NextReuse]_vars

----------------------------------------------------------------------------
(* str values that the code searches, splits or strips *)

\* The white space that str.strip removes: tab, line feed, vertical tab, form
\* feed, carriage return, the separators 1C to 1F, space, next line (85),
\* no-break space (A0) and ogham space mark (1680); the spaces from 2000 on
\* are in no string of the model.
Whitespace == {"\t", "\n", "", "\f", "\r", "", "", "", "", " ", "", " ", " "}

\* pattern in text: the characters of pattern stand somewhere in text.
Contains(text, pattern) ==
    \E i \in 1..(Len(text) - Len(pattern) + 1) :
        SubSeq(text, i, i + Len(pattern) - 1) = pattern

RECURSIVE Replace(_, _)
\* text.replace(pattern, ''): the occurrences are removed from left to right.
Replace(text, pattern) ==
    IF Len(text) < Len(pattern) \/ Len(text) = 0 THEN text
    ELSE IF SubSeq(text, 1, Len(pattern)) = pattern
         THEN Replace(SubSeq(text, Len(pattern) + 1, Len(text)), pattern)
         ELSE Head(text) \o Replace(Tail(text), pattern)

RECURSIVE Strip(_)
\* text.strip()
Strip(text) ==
    IF Len(text) = 0 THEN text
    ELSE IF Head(text) \in Whitespace THEN Strip(Tail(text))
    ELSE IF SubSeq(text, Len(text), Len(text)) \in Whitespace
         THEN Strip(SubSeq(text, 1, Len(text) - 1))
    ELSE text

RECURSIVE Split(_, _)
\* text.split(sep) for a separator of one character: the pieces between the
\* separators, at least one piece.
Split(text, sep) ==
    IF \E i \in 1..Len(text) : SubSeq(text, i, i) = sep
    THEN LET i == CHOOSE j \in 1..Len(text) :
                      SubSeq(text, j, j) = sep /\ \A k \in 1..(j - 1) : SubSeq(text, k, k) # sep
         IN  <<SubSeq(text, 1, i - 1)>> \o Split(SubSeq(text, i + 1, Len(text)), sep)
    ELSE <<text>>

\* None, and a str, as the value of an Optional[str].
NoneStr == [isNone |-> TRUE, value |-> ""]
SomeStr(s) == [isNone |-> FALSE, value |-> s]

\* The truth value of an Optional[str]: None and '' are false.
Truthy(x) == ~x.isNone /\ x.value # ""

----------------------------------------------------------------------------
(* data_loader.py: the tables are sequences of rows *)

\* DataLoader.get_course_info: the first row of the course, as a sequence of
\* one row; None is the empty sequence.
get_course_info(course_id) ==
    LET course == SelectSeq(courses, LAMBDA row : row.CourseID = course_id)
    IN  IF course = <<>> THEN <<>> ELSE <<course[1]>>

\* DataLoader.get_qualified_instructors
get_qualified_instructors(course_id) ==
    LET can(row) == \E qualified_courses \in {Split(row.QualifiedCourses, ",")} :
                        \E k \in 1..Len(qualified_courses) :
                            Strip(qualified_courses[k]) = course_id
        qualified == SelectSeq(instructors, can)
    IN  [k \in 1..Len(qualified) |-> qualified[k].InstructorID]

\* DataLoader.get_instructor_unavailable_day
get_instructor_unavailable_day(instructor_id) ==
    LET instructor == SelectSeq(instructors, LAMBDA row : row.InstructorID = instructor_id)
    IN  IF instructor = <<>> THEN NoneStr
        ELSE LET pref == instructor[1].PreferredSlots
             IN  IF Contains(pref, "Not on")
                 THEN SomeStr(Strip(Replace(pref, "Not on ")))
                 ELSE NoneStr

\* DataLoader.get_rooms_by_type
get_rooms_by_type(room_type) ==
    LET filtered == SelectSeq(rooms, LAMBDA row : row.Type = room_type)
    IN  [k \in 1..Len(filtered) |-> filtered[k].RoomID]

\* DataLoader.get_section_courses
get_section_courses(section_id) ==
    LET section == SelectSeq(sections, LAMBDA row : row.SectionID = section_id)
    IN  IF section = <<>> THEN <<>>
        ELSE LET pieces == Split(section[1].Courses, ",")
             IN  [k \in 1..Len(pieces) |-> Strip(pieces[k])]

----------------------------------------------------------------------------
(* problem_builder.py: ProblemBuilder *)

\* _calculate_lectures_per_week that gives one lecture per credit.
calculate_lectures_per_week_linear(credits) == credits

\* ProblemBuilder._calculate_lectures_per_week
calculate_lectures_per_week(credits) ==
    IF credits = 1 THEN 1
    ELSE IF credits = 2 THEN 1
    ELSE IF credits = 3 THEN 2
    ELSE IF credits = 4 THEN 2
    ELSE IF credits = 5 THEN 3
    ELSE 2

\* build_lectures_for_sections, body of "for course_id in course_ids" for one
\* course: no lecture when the course is unknown, else lectures 1..num_lectures.
LecturesOfCourse(section_id, course_id) ==
    LET course_info == get_course_info(course_id)
        num_lectures == calculate_lectures_per_week(course_info[1].Credits)
    IN  IF course_info = <<>> THEN <<>>
        ELSE [lec_num \in 1..num_lectures |-> Lecture(course_id, section_id, lec_num)]

RECURSIVE LecturesOfSection(_, _)
\* build_lectures_for_sections, "for course_id in course_ids".
LecturesOfSection(section_id, course_ids) ==
    IF course_ids = <<>> THEN <<>>
    ELSE LecturesOfCourse(section_id, Head(course_ids))
             \o LecturesOfSection(section_id, Tail(course_ids))

RECURSIVE build_lectures_for_sections(_)
\* ProblemBuilder.build_lectures_for_sections: all_lectures.
build_lectures_for_sections(section_ids) ==
    IF section_ids = <<>> THEN <<>>
    ELSE LecturesOfSection(Head(section_ids), get_section_courses(Head(section_ids)))
             \o build_lectures_for_sections(Tail(section_ids))

\* build_domains: the day of a timeslot id is the day of its first row.
DayOf(timeslot_id) ==
    LET ts_info == SelectSeq(timeslots, LAMBDA row : row.TimeSlotID = timeslot_id)
    IN  ts_info[1].Day

\* build_domains without the test of the unavailable day.
is_unavailable_never(unavailable_day, day) == FALSE

\* build_domains: unavailable_day and unavailable_day == day
is_unavailable(unavailable_day, day) ==
    Truthy(unavailable_day) /\ unavailable_day.value = day

\* build_domains with the loop over the rooms inside the loop over the
\* instructors.
DomainOf_rooms_innermost(course_type, course_id) ==
    LET room_type == IF Contains(course_type, "Lab") THEN "Lab" ELSE "Lecture"
        qualified_instructors == get_qualified_instructors(course_id)
        available_rooms == get_rooms_by_type(room_type)
        timeslot_ids == [k \in 1..Len(timeslots) |-> timeslots[k].TimeSlotID]
        nr == Len(available_rooms)
        ni == Len(qualified_instructors)
        combinations ==
            [k \in 1..(Len(timeslot_ids) * nr * ni) |->
                << timeslot_ids[((k - 1) \div (nr * ni)) + 1],
                   available_rooms[((k - 1) % nr) + 1],
                   qualified_instructors[(((k - 1) \div nr) % ni) + 1] >>]
    IN  SelectSeq(combinations,
                  LAMBDA c : ~is_unavailable(get_instructor_unavailable_day(c[3]), DayOf(c[1])))

\* build_domains, the three nested loops for one lecture: the triples
\* (timeslot, room, instructor) in the order of the loops, without those of an
\* instructor on the instructor's unavailable day.
DomainOf(course_type, course_id) ==
    LET room_type == IF Contains(course_type, "Lab") THEN "Lab" ELSE "Lecture"
        qualified_instructors == get_qualified_instructors(course_id)
        available_rooms == get_rooms_by_type(room_type)
        timeslot_ids == [k \in 1..Len(timeslots) |-> timeslots[k].TimeSlotID]
        nr == Len(available_rooms)
        ni == Len(qualified_instructors)
        combinations ==
            [k \in 1..(Len(timeslot_ids) * nr * ni) |->
                << timeslot_ids[((k - 1) \div (nr * ni)) + 1],
                   available_rooms[(((k - 1) \div ni) % nr) + 1],
                   qualified_instructors[((k - 1) % ni) + 1] >>]
    IN  SelectSeq(combinations,
                  LAMBDA c : ~is_unavailable(get_instructor_unavailable_day(c[3]), DayOf(c[1])))

RECURSIVE build_domains(_, _)
\* ProblemBuilder.build_domains: self.domains after the loop over the lectures
\* lecs. A lecture of an unknown course, or of a course without qualified
\* instructor, stores nothing.
build_domains(lecs, doms) ==
    IF lecs = <<>> THEN doms
    ELSE LET lecture == Head(lecs)
             course_info == get_course_info(lecture.course_id)
         IN  IF course_info = <<>> THEN build_domains(Tail(lecs), doms)
             ELSE IF get_qualified_instructors(lecture.course_id) = <<>>
                  THEN build_domains(Tail(lecs), doms)
             ELSE build_domains(Tail(lecs),
                      Extend(doms, get_variable_name(lecture),
                             DomainOf(course_info[1].Type, lecture.course_id)))

----------------------------------------------------------------------------
(* Tables given to a DataLoader, and the requests made to a ProblemBuilder *)

CoursePool ==
    << [CourseID |-> "C1", Type |-> "Lecture", Credits |-> 3],
       [CourseID |-> "C2", Type |-> "Lecture and Lab", Credits |-> 2] >>

\* Cells as a table file can hold them: with a tab, a carriage return or a
\* form feed next to an id.
InstructorPool ==
    << [InstructorID |-> "I1", QualifiedCourses |-> "C1,\tC2",
        PreferredSlots |-> "\tNot on Sunday\r "],
       [InstructorID |-> "I2", QualifiedCourses |-> "\fC2",
        PreferredSlots |-> "Any time"],
       [InstructorID |-> "I3", QualifiedCourses |-> "C1\r",
        PreferredSlots |-> "Not on  Monday "] >>

RoomPool == << [RoomID |-> "R1", Type |-> "Lecture"], [RoomID |-> "R2", Type |-> "Lab"],
              [RoomID |-> "R3", Type |-> "Lab"] >>

TimeslotPool == << [TimeSlotID |-> "TS1", Day |-> "Sunday"],
                   [TimeSlotID |-> "TS2", Day |-> "Monday"] >>

\* Section S2 names a course that no course table holds.
SectionPool == << [SectionID |-> "S1", Courses |-> "C1,\r C2"],
                  [SectionID |-> "S2", Courses |-> "C2\t, C9"] >>

\* The tables that hold some rows of a pool, in the order of the pool (the ids
\* of a table are distinct).
TablesOf(pool) ==
    {[i \in 1..Cardinality(T) |-> pool[SortedSeq(T)[i]]] : T \in SUBSET (1..Len(pool))}

\* The lists of at most MaxRequest section ids a caller asks lectures for.
Requests == UNION {[1..n -> {"S1", "S2"}] : n \in 0..MaxRequest}

\* TimetableSolver state while only the builder is observed.
SolverOff ==
    /\ lectures = <<>> /\ domains = EmptyAssignment /\ assignment = EmptyAssignment
    /\ iterations = 0 /\ timeout = 0 /\ pc = "off" /\ stack = <<>>
    /\ rv = NoneResult /\ result = NoneResult /\ calls = 0 /\ timedOut = FALSE
    /\ maxAssigned = 0 /\ commits = 0 /\ failures = {}
    /\ handed = [held |-> FALSE, alias |-> FALSE, value |-> EmptyAssignment]

\* DataLoader.load_all_data and ProblemBuilder.__init__
BuilderInit ==
    /\ courses \in TablesOf(CoursePool)
    /\ instructors \in TablesOf(InstructorPool)
    /\ rooms \in TablesOf(RoomPool)
    /\ timeslots \in TablesOf(TimeslotPool)
    /\ sections \in TablesOf(SectionPool)
    /\ blectures = <<>>
    /\ bdomains = EmptyAssignment
    /\ requested = <<>>
    /\ bpc = "new"

InitBuild == BuilderInit /\ SolverOff /\ CheckOff /\ ScoreOff /\ GuiOff

\* ProblemBuilder.build_lectures_for_sections
BuildLectures(section_ids) ==
    /\ bpc = "new"
    /\ blectures' = build_lectures_for_sections(section_ids)
    /\ requested' = section_ids
    /\ bpc' = "lectures"
    /\ UNCHANGED <<courses, instructors, rooms, timeslots, sections, bdomains, solverVars, checkVars, scoreVars, guiVars>>

\* ProblemBuilder.build_domains
BuildDomains ==
    /\ bpc = "lectures"
    /\ bdomains' = build_domains(blectures, bdomains)
    /\ bpc' = "built"
    /\ UNCHANGED <<courses, instructors, rooms, timeslots, sections, blectures, requested,
                   solverVars, checkVars, scoreVars, guiVars>>

NextBuild ==
    \/ \E section_ids \in Requests : BuildLectures(section_ids)
    \/ BuildDomains

SpecBuild == InitBuild /\ [][NextBuild]_vars

----------------------------------------------------------------------------
(* constraints.py: calls of the methods of a TimetableConstraints object *)

\* The values of the assignments given to the methods: those of ValuePool and
\* one at another timeslot.
CheckValues == {ValuePool[i] : i \in 1..Len(ValuePool)} \cup {<<"TS2", "R1", "I1">>}

\* The lectures given to the methods: two of section S1 and two whose
\* section id is the empty str.
CheckLecturePool ==
    << Lecture("C1", "S1", 1), Lecture("C1", "S1", 2), Lecture("C1", "", 1), Lecture("C1", "", 2) >>

\* Lists of at most MaxLectures of these lectures (a lecture may occur twice).
CheckLectureLists ==
    LET IndexLists == UNION {{s \in [1..n -> 1..Len(CheckLecturePool)] :
                                \A i \in 1..(n - 1) : s[i] <= s[i + 1]} : n \in 0..MaxLectures}
    IN  {[i \in DOMAIN s |-> CheckLecturePool[s[i]]] : s \in IndexLists}

\* The assignments given to the methods: some names of the lecture pool, also
\* names that the lecture list of the call does not hold, each with a value.
CheckAssignments ==
    UNION {[K -> CheckValues] : K \in SUBSET NameSet(CheckLecturePool)}

\* The arguments assignment and lectures of the calls.
CheckInit ==
    /\ cargs \in [assignment : CheckAssignments, lectures : CheckLectureLists]
    /\ cret = NoCall

InitCheck == CheckInit /\ SolverOff /\ BuilderOff /\ ScoreOff /\ GuiOff

\* The methods keep nothing from one call to the next (the object has no
\* field), so one call is observed on each pair of arguments.

\* TimetableConstraints.is_consistent(var_name, value, assignment, lectures)
CallIsConsistent(var_name, value) ==
    /\ cret = NoCall
    /\ cret' = [method |-> "is_consistent", var |-> var_name, value |-> value,
                result |-> is_consistent(var_name, value, cargs.assignment, cargs.lectures),
                conflicts |-> {}]
    /\ UNCHANGED <<cargs, solverVars, builderVars, scoreVars, guiVars>>

\* TimetableConstraints.check_all_constraints(assignment, lectures)
CallCheckAll ==
    /\ cret = NoCall
    /\ cret' = [method |-> "check_all_constraints", var |-> NoVar, value |-> <<>>,
                result |-> check_all_constraints(cargs.assignment, cargs.lectures),
                conflicts |-> {}]
    /\ UNCHANGED <<cargs, solverVars, builderVars, scoreVars, guiVars>>

\* TimetableConstraints.get_conflicts(assignment, lectures)
CallGetConflicts ==
    /\ cret = NoCall
    /\ cret' = [method |-> "get_conflicts", var |-> NoVar, value |-> <<>>,
                result |-> FALSE,
                conflicts |-> get_conflicts(cargs.assignment, cargs.lectures)]
    /\ UNCHANGED <<cargs, solverVars, builderVars, scoreVars, guiVars>>


NextCheck ==
    \/ \E var_name \in NameSet(CheckLecturePool), value \in CheckValues :
          CallIsConsistent(var_name, value)
    \/ CallCheckAll
    \/ CallGetConflicts

SpecCheck == InitCheck /\ [][NextCheck]_vars

----------------------------------------------------------------------------
(* soft_constraints.py: SoftConstraints *)

\* self.weights
weights == [no_gaps |-> 10, balanced_days |-> 5, avoid_early |-> 3, avoid_late |-> 3,
            consecutive_rooms |-> 8]

\* The timeslot ids are "TS" followed by a number; SlotIds[n] is the id of n.
SlotIds == [n \in 0..21 |-> "TS" \o ToString(n)]
SlotNumber(id) == CHOOSE n \in DOMAIN SlotIds : SlotIds[n] = id

RECURSIVE Digits(_)
\* The decimal digits of n, the characters of str(n).
Digits(n) == IF n < 10 THEN <<n>> ELSE Digits(n \div 10) \o <<n % 10>>

RECURSIVE SeqLess(_, _)
\* The order of str on the characters after "TS": character by character, a
\* proper prefix first.
SeqLess(s, t) ==
    IF t = <<>> THEN FALSE
    ELSE IF s = <<>> THEN TRUE
    ELSE IF Head(s) # Head(t) THEN Head(s) < Head(t)
    ELSE SeqLess(Tail(s), Tail(t))

\* id1 < id2 as Python compares the two str.
StrLess(id1, id2) == SeqLess(Digits(SlotNumber(id1)), Digits(SlotNumber(id2)))

RECURSIVE sorted(_)
\* sorted(timeslots): the list in the order of str.
sorted(slots) ==
    IF slots = <<>> THEN <<>>
    ELSE LET rest == sorted(Tail(slots))
             before == SelectSeq(rest, LAMBDA x : ~StrLess(Head(slots), x))
             after == SelectSeq(rest, LAMBDA x : StrLess(Head(slots), x))
         IN  before \o <<Head(slots)>> \o after

\* list.index(x) counted from 0; Missing when x is not in the list (ValueError).
Missing == -1
index(list, x) ==
    IF \E i \in 1..Len(list) : list[i] = x
    THEN (CHOOSE i \in 1..Len(list) : list[i] = x /\ \A j \in 1..(i - 1) : list[j] # x) - 1
    ELSE Missing

RECURSIVE SumOf(_)
\* The sum of the values of a dict, or of a list.
SumOf(f) ==
    IF DOMAIN f = {} THEN 0
    ELSE LET x == CHOOSE y \in DOMAIN f : TRUE
         IN  f[x] + SumOf([y \in DOMAIN f \ {x} |-> f[y]])

\* DataLoader.get_available_timeslots_for_day
get_available_timeslots_for_day(day) ==
    LET day_slots == SelectSeq(timeslots, LAMBDA row : row.Day = day)
    IN  [k \in 1..Len(day_slots) |-> day_slots[k].TimeSlotID]

\* next((l for l in lectures if l.get_variable_name() == var_name), None): the
\* positions of the lectures with the name, the first one is the lecture.
LecturesNamed(var_name, lecs) == {i \in 1..Len(lecs) : get_variable_name(lecs[i]) = var_name}
FirstOf(S) == CHOOSE i \in S : \A j \in S : i <= j

\* assignment.items(): the keys of the dict in the order in which the caller
\* inserted them.
items(a) == SelectSeq(sargs.keys, LAMBDA v : v \in DOMAIN a)

\* "not ts_info.empty": the timeslot table has a row of the timeslot.
HasDay(timeslot) == \E k \in 1..Len(timeslots) : timeslots[k].TimeSlotID = timeslot

\* The keys of the assignment that _group_by_section_and_day keeps: a lecture
\* has the name and the timeslot table has the timeslot.
Grouped(a, lecs) == {v \in DOMAIN a : LecturesNamed(v, lecs) # {} /\ HasDay(TimeslotOf(a[v]))}

\* grouped[key]: the timeslots of the keys vs, appended in the order of the dict.
SlotsOf(a, vs) ==
    LET names == SelectSeq(items(a), LAMBDA v : v \in vs)
    IN  [k \in 1..Len(names) |-> TimeslotOf(a[names[k]])]

\* SoftConstraints._group_by_section_and_day
group_by_section_and_day(a, lecs) ==
    LET key(v) == <<lecs[FirstOf(LecturesNamed(v, lecs))].section_id, DayOf(TimeslotOf(a[v]))>>
        kept == Grouped(a, lecs)
    IN  [k \in {key(v) : v \in kept} |-> SlotsOf(a, {v \in kept : key(v) = k})]

\* SoftConstraints._group_by_instructor_and_day: every key of the assignment
\* whose timeslot the table has, with or without a lecture.
group_by_instructor_and_day(a) ==
    LET key(v) == <<InstructorOf(a[v]), DayOf(TimeslotOf(a[v]))>>
        kept == {v \in DOMAIN a : HasDay(TimeslotOf(a[v]))}
    IN  [k \in {key(v) : v \in kept} |-> SlotsOf(a, {v \in kept : key(v) = k})]

\* _calculate_gap_penalty, the loop over one (section, day) list.
GapOfGroup(day, slots) ==
    LET sorted_slots == sorted(slots)
        day_slots == get_available_timeslots_for_day(day)
        gap_size(i) == index(day_slots, sorted_slots[i + 1]) - index(day_slots, sorted_slots[i]) - 1
    IN  IF Len(sorted_slots) > 1
        THEN SumOf([i \in 1..(Len(sorted_slots) - 1) |->
                       IF gap_size(i) > 0 THEN gap_size(i) * weights.no_gaps ELSE 0])
        ELSE 0

\* SoftConstraints._calculate_gap_penalty
calculate_gap_penalty(a, lecs) ==
    LET section_schedules == group_by_section_and_day(a, lecs)
    IN  SumOf([k \in DOMAIN section_schedules |-> GapOfGroup(k[2], section_schedules[k])])

RECURSIVE SqrtBetween(_, _, _)
\* The largest k in lo..hi with k * k <= v.
SqrtBetween(v, lo, hi) ==
    IF lo = hi THEN lo
    ELSE LET mid == (lo + hi + 1) \div 2
         IN  IF mid * mid <= v THEN SqrtBetween(v, mid, hi) ELSE SqrtBetween(v, lo, mid - 1)

\* The floats of the score are kept in thousandths. std_dev of the counts
\* (variance ** 0.5, with mean and variance as in the code), rounded down to
\* a thousandth: variance = (n * sum(x * x) - sum(x) ** 2) / n ** 2.
StdDevMilli(values) ==
    LET n == Len(values)
        total == SumOf(values)
        squares == SumOf([i \in 1..n |-> values[i] * values[i]])
    IN  SqrtBetween(((n * squares - total * total) * 1000000) \div (n * n), 0, 10000)

\* SoftConstraints._calculate_balance_bonus, in thousandths: per section the
\* number of lectures on each of its days, max(0, 5 - std_dev) times the weight.
calculate_balance_bonus(a, lecs) ==
    LET kept == Grouped(a, lecs)
        section(v) == lecs[FirstOf(LecturesNamed(v, lecs))].section_id
        named == {v \in DOMAIN a : LecturesNamed(v, lecs) # {}}
        days(s) == {DayOf(TimeslotOf(a[v])) : v \in {w \in kept : section(w) = s}}
        count(s, d) == Cardinality({v \in kept : section(v) = s /\ DayOf(TimeslotOf(a[v])) = d})
        values(s) == LET ds == days(s)
                         order == CHOOSE f \in [1..Cardinality(ds) -> ds] :
                                      \A i, j \in 1..Cardinality(ds) : f[i] = f[j] => i = j
                     IN  [i \in 1..Cardinality(ds) |-> count(s, order[i])]
        balance_score(s) == IF 5000 - StdDevMilli(values(s)) > 0
                            THEN 5000 - StdDevMilli(values(s)) ELSE 0
    IN  SumOf([s \in {section(v) : v \in named} |->
                  IF days(s) = {} THEN 0 ELSE balance_score(s) * weights.balanced_days])

\* _calculate_time_preference_penalty: the 9:00 and the 2:15 slots.
early_slots == {"TS0", "TS4", "TS8", "TS12", "TS16"}
late_slots == {"TS3", "TS7", "TS11", "TS15", "TS19"}

\* SoftConstraints._calculate_time_preference_penalty
calculate_time_preference_penalty(a) ==
    SumOf([v \in DOMAIN a |->
              (IF TimeslotOf(a[v]) \in early_slots THEN weights.avoid_early ELSE 0)
              + (IF TimeslotOf(a[v]) \in late_slots THEN weights.avoid_late ELSE 0)])

\* _check_consecutive_room_distance: all_slots = [f'TS{i}' for i in range(20)]
all_slots == [i \in 1..20 |-> SlotIds[i - 1]]

\* room[0] and int(room[1:]) of the room ids of the scored assignments; RA has
\* no number after its first character (int raises, the code returns 1).
RoomParts ==
    [R101 |-> [first |-> "R", is_int |-> TRUE, number |-> 101],
     R120 |-> [first |-> "R", is_int |-> TRUE, number |-> 120],
     R112 |-> [first |-> "R", is_int |-> TRUE, number |-> 112],
     L1 |-> [first |-> "L", is_int |-> TRUE, number |-> 1],
     RA |-> [first |-> "R", is_int |-> FALSE, number |-> 0]]

\* SoftConstraints._calculate_room_distance
calculate_room_distance(room1, room2) ==
    IF room1 = room2 THEN 0
    ELSE IF RoomParts[room1].first = RoomParts[room2].first
         THEN IF RoomParts[room1].is_int /\ RoomParts[room2].is_int
              THEN LET d == RoomParts[room1].number - RoomParts[room2].number
                   IN  (IF d < 0 THEN -d ELSE d) \div 5
              ELSE 1
         ELSE 3

\* _check_consecutive_room_distance, "for var_name, (ts, room, inst) in
\* assignment.items()": the room of the last entry of the dict at the timeslot,
\* whatever its section and its instructor.
RoomAt(a, ts) ==
    LET at == SelectSeq(items(a), LAMBDA v : TimeslotOf(a[v]) = ts)
    IN  RoomOf(a[at[Len(at)]])

\* _check_consecutive_room_distance raises ValueError: all_slots.index of a
\* timeslot that all_slots does not hold.
ConsecutiveRaises(slots) ==
    /\ ~(Len(slots) < 2)
    /\ \E i \in 1..Len(slots) : index(all_slots, slots[i]) = Missing

\* SoftConstraints._check_consecutive_room_distance, when it does not raise.
check_consecutive_room_distance(slots, a) ==
    LET sorted_slots == sorted(slots)
        consecutive(i) == index(all_slots, sorted_slots[i + 1]) = index(all_slots, sorted_slots[i]) + 1
        distance(i) == calculate_room_distance(RoomAt(a, sorted_slots[i]), RoomAt(a, sorted_slots[i + 1]))
    IN  IF Len(slots) < 2 THEN 0
        ELSE SumOf([i \in 1..(Len(sorted_slots) - 1) |->
                       IF consecutive(i) /\ distance(i) > 2
                       THEN distance(i) * weights.consecutive_rooms ELSE 0])

\* _calculate_room_distance_penalty raises: one of its lists does.
RoomDistanceRaises(a, lecs) ==
    \/ \E section_schedules \in {group_by_section_and_day(a, lecs)} :
          \E k \in DOMAIN section_schedules : ConsecutiveRaises(section_schedules[k])
    \/ \E instructor_schedules \in {group_by_instructor_and_day(a)} :
          \E k \in DOMAIN instructor_schedules : ConsecutiveRaises(instructor_schedules[k])

\* SoftConstraints._calculate_room_distance_penalty, when it does not raise.
calculate_room_distance_penalty(a, lecs) ==
    LET section_schedules == group_by_section_and_day(a, lecs)
        instructor_schedules == group_by_instructor_and_day(a)
    IN  SumOf([k \in DOMAIN section_schedules |->
                  check_consecutive_room_distance(section_schedules[k], a)])
        + SumOf([k \in DOMAIN instructor_schedules |->
                    check_consecutive_room_distance(instructor_schedules[k], a)])

\* calculate_quality_score, line 40: score = 1000.0 (in thousandths).
BaseScore == 1000000

\* calculate_quality_score, lines 43 to 46, when no term raises: the local
\* score after "score -= gap", "score += balance", "score -= time" and
\* "score -= room", with the four terms.
ScoreTerms(score, a, lecs) ==
    LET gap == calculate_gap_penalty(a, lecs)
        balance == calculate_balance_bonus(a, lecs)
        time == calculate_time_preference_penalty(a)
        room == calculate_room_distance_penalty(a, lecs)
    IN  [score |-> (((score - 1000 * gap) + balance) - 1000 * time) - 1000 * room,
         gap |-> gap, balance |-> balance, time |-> time, room |-> room]

----------------------------------------------------------------------------
(* Timetables given to a SoftConstraints object *)

\* A row of the timeslot table.
Slot(n, day) == [TimeSlotID |-> SlotIds[n], Day |-> day]

\* Timeslot tables: the first three slots of Sunday with the four slots of
\* Tuesday, and a table with a sixth day whose slots follow TS19.
ScoreTables ==
    { << Slot(0, "Sunday"), Slot(1, "Sunday"), Slot(2, "Sunday"),
         Slot(8, "Tuesday"), Slot(9, "Tuesday"), Slot(10, "Tuesday"), Slot(11, "Tuesday") >>,
      << Slot(0, "Sunday"), Slot(20, "Saturday"), Slot(21, "Saturday") >> }

\* The lectures of one section, with the room and the instructor each one has
\* in every timetable.
ScoreLecturePool == << Lecture("C1", "S1", 1), Lecture("C1", "S1", 2),
                       Lecture("C2", "S1", 1), Lecture("C3", "S1", 1) >>
ScoreRooms == << "R101", "RA", "R120", "L1" >>
ScoreInstructors == << "I1", "I2", "I1", "I3" >>

\* The courses whose lectures are given on Sunday only, the lectures of the
\* other courses being given on any day, and the courses whose lectures are
\* given at TS2.
SundayCourses == {"C2", "C3"}
LateCourses == {"C3"}

\* The lecture lists: the first lectures of the pool.
ScoreLectureLists == {SubSeq(ScoreLecturePool, 1, n) : n \in 0..Len(ScoreLecturePool)}

\* The domains of the solver that made the timetable: every lecture has the
\* timeslots of the table that its course allows, in the order of the table,
\* each with the room and the instructor of the lecture.
ScoreDomains(lecs, table) ==
    LET position(v) == CHOOSE i \in 1..Len(lecs) : get_variable_name(lecs[i]) = v
        allowed(v, row) ==
            /\ lecs[position(v)].course_id \in SundayCourses => row.Day = "Sunday"
            /\ lecs[position(v)].course_id \in LateCourses => row.TimeSlotID = "TS2"
        rows(v) == SelectSeq(table, LAMBDA row : allowed(v, row))
    IN  [v \in NameSet(lecs) |->
            [k \in 1..Len(rows(v)) |->
                <<rows(v)[k].TimeSlotID, ScoreRooms[position(v)], ScoreInstructors[position(v)]>>]]

\* The dicts that solve can return for the lectures lecs with the domains
\* doms: every lecture has a value of its domain and the hard constraints
\* hold.
Timetables(lecs, doms) ==
    LET longest == UNION {1..Len(doms[v]) : v \in NameSet(lecs)}
        picks == {f \in [NameSet(lecs) -> longest] :
                     \A v \in NameSet(lecs) : f[v] <= Len(doms[v])}
    IN  {a \in {[v \in NameSet(lecs) |-> doms[v][f[v]]] : f \in picks} :
            check_all_constraints(a, lecs)}

RECURSIVE AssignedOrder(_, _, _, _)
\* The keys of the dict that solve returns, in the order of insertion:
\* _backtrack inserts the lecture that _select_unassigned_variable gives for
\* the entries inserted before it; keys are the keys inserted so far.
AssignedOrder(a, lecs, doms, keys) ==
    LET inserted == {keys[k] : k \in 1..Len(keys)}
        var_name == select_unassigned_variable(lecs, doms, [v \in inserted |-> a[v]])
    IN  IF var_name = NoVar THEN keys
        ELSE AssignedOrder(a, lecs, doms, Append(keys, var_name))

\* The timetables of every table and lecture list, each with its table, its
\* list and the order of its keys.
TimetableFamily ==
    UNION {UNION {{<<x[1], x[2], a, AssignedOrder(a, x[2], doms, <<>>)>> :
                      a \in Timetables(x[2], doms)} :
                  doms \in {ScoreDomains(x[2], x[1])}} :
              x \in ScoreTables \X ScoreLectureLists}

\* The timetables of the lectures lecs over the table, as solve returns them.
TimetablesOf(table, lecs) ==
    {[assignment |-> y[3], keys |-> y[4]] :
        y \in {z \in TimetableFamily : z[1] = table /\ z[2] = lecs}}

\* SoftConstraints.__init__ and the timetable the caller holds.
ScoreInit ==
    /\ timeslots \in ScoreTables
    /\ \E lecs \in ScoreLectureLists :
          \E solution \in TimetablesOf(timeslots, lecs) :
              sargs = [assignment |-> solution.assignment, lectures |-> lecs,
                       keys |-> solution.keys, run |-> 1]
    /\ sret = NoScore
    /\ sprev = [assignment |-> EmptyAssignment, ret |-> NoScore]
    /\ sframe = NoFrame
    /\ courses = <<>> /\ instructors = <<>> /\ rooms = <<>> /\ sections = <<>>
    /\ blectures = <<>> /\ bdomains = EmptyAssignment /\ requested = <<>> /\ bpc = "off"

InitScore == ScoreInit /\ SolverOff /\ CheckOff /\ GuiOff

\* The last call of calculate_quality_score so far, when there was one.
Previous == IF sret.method = "calculate_quality_score"
            THEN [assignment |-> sargs.assignment, ret |-> sret]
            ELSE sprev

\* A call of calculate_quality_score begins; line 40: score = 1000.0.
Entered(method, score) ==
    [pc |-> "terms", method |-> method, score |-> score, gap |-> 0, balance |-> 0,
     time |-> 0, room |-> 0]

\* calculate_quality_score that goes on from the score it returned last, as
\* with a score kept in a field of the object.
ScoreCall_resume ==
    /\ sframe.pc = "none"
    /\ sframe' = Entered("calculate_quality_score",
                         IF sret.status = "returned" THEN sret.score ELSE BaseScore)
    /\ UNCHANGED <<sargs, sret, sprev, solverVars, builderVars, checkVars, guiVars>>

\* calculate_quality_score(assignment, lectures) is called on the timetable of
\* the caller: line 40.
ScoreCall ==
    /\ sframe.pc = "none"
    /\ sframe' = Entered("calculate_quality_score", BaseScore)
    /\ UNCHANGED <<sargs, sret, sprev, solverVars, builderVars, checkVars, guiVars>>

\* print_quality_report(assignment, lectures) is called on the timetable of
\* the caller, the first call that main.py makes on a SoftConstraints object:
\* it calls calculate_quality_score, line 40.
ReportCall ==
    /\ sframe.pc = "none"
    /\ sret.status = "none" /\ sprev.ret.status = "none"
    /\ sframe' = Entered("print_quality_report", BaseScore)
    /\ UNCHANGED <<sargs, sret, sprev, solverVars, builderVars, checkVars, guiVars>>

\* calculate_quality_score, lines 43 to 46: the four terms are computed on the
\* dict and the list the call was given and the local score takes them; a
\* ValueError of the room distance leaves the call, and the report.
ScoreAccumulate ==
    /\ sframe.pc = "terms"
    /\ IF RoomDistanceRaises(sargs.assignment, sargs.lectures)
       THEN /\ sret' = Raised(sframe.method)
            /\ sprev' = Previous
            /\ sframe' = NoFrame
       ELSE /\ \E local \in {ScoreTerms(sframe.score, sargs.assignment, sargs.lectures)} :
                  sframe' = [sframe EXCEPT !.pc = "return", !.score = local.score,
                                           !.gap = local.gap, !.balance = local.balance,
                                           !.time = local.time, !.room = local.room]
            /\ UNCHANGED <<sret, sprev>>
    /\ UNCHANGED <<sargs, solverVars, builderVars, checkVars, guiVars>>

\* calculate_quality_score, line 48: return score.
ScoreReturn ==
    /\ sframe.pc = "return"
    /\ sframe.method = "calculate_quality_score"
    /\ sret' = [status |-> "returned", method |-> sframe.method, score |-> sframe.score,
                gap |-> sframe.gap, balance |-> sframe.balance, time |-> sframe.time,
                room |-> sframe.room]
    /\ sprev' = Previous
    /\ sframe' = NoFrame
    /\ UNCHANGED <<sargs, solverVars, builderVars, checkVars, guiVars>>

\* print_quality_report, lines 286 to 291: total_score is the score that
\* calculate_quality_score returned, and each term is computed once more.
ReportReturn ==
    /\ sframe.pc = "return"
    /\ sframe.method = "print_quality_report"
    /\ sret' = [status |-> "returned", method |-> sframe.method, score |-> sframe.score,
                gap |-> calculate_gap_penalty(sargs.assignment, sargs.lectures),
                balance |-> calculate_balance_bonus(sargs.assignment, sargs.lectures),
                time |-> calculate_time_preference_penalty(sargs.assignment),
                room |-> calculate_room_distance_penalty(sargs.assignment, sargs.lectures)]
    /\ sprev' = Previous
    /\ sframe' = NoFrame
    /\ UNCHANGED <<sargs, solverVars, builderVars, checkVars, guiVars>>

\* gui.py, run_solver of another run for the same sections and
\* calculate_quality: self.solution is the dict that solve of that run
\* returned, which may be equal to the one before, and the next call scores
\* it (a running call goes on with the dict that it was given).
NextRun(solution) ==
    /\ sframe.pc = "none"
    /\ sargs.run < MaxRuns
    /\ sargs' = [sargs EXCEPT !.assignment = solution.assignment, !.keys = solution.keys,
                              !.run = @ + 1]
    /\ sprev' = Previous
    /\ sret' = NoScore
    /\ UNCHANGED <<sframe, solverVars, builderVars, checkVars, guiVars>>

NextScore ==
    \/ ScoreCall
    \/ ReportCall
    \/ ScoreAccumulate
    \/ ScoreReturn
    \/ ReportReturn
    \/ \E solution \in TimetablesOf(timeslots, sargs.lectures) : NextRun(solution)

SpecScore == InitScore /\ [][NextScore]_vars

----------------------------------------------------------------------------
(* Timetables of two sections given to a SoftConstraints object *)

\* The timeslot table: three slots of Sunday, and TS9 and TS10 of Tuesday.
RoomTable == << Slot(0, "Sunday"), Slot(1, "Sunday"), Slot(2, "Sunday"),
               Slot(9, "Tuesday"), Slot(10, "Tuesday") >>

\* Two lectures of each of two sections, with the room and the instructor each
\* one has in every timetable: one instructor gives both lectures of S1.
RoomLecturePool == << Lecture("C1", "S1", 1), Lecture("C1", "S1", 2),
                      Lecture("C1", "S2", 1), Lecture("C1", "S2", 2) >>
PoolRooms == << "R101", "R112", "L1", "R120" >>
PoolInstructors == << "I1", "I1", "I2", "I3" >>

RoomLectureLists == {SubSeq(RoomLecturePool, 1, n) : n \in 0..Len(RoomLecturePool)}

\* The timetables of the lectures lecs over the table: every lecture has a
\* timeslot of the table, and the hard constraints hold.
RoomTimetables(lecs, table) ==
    LET rows == {table[k] : k \in 1..Len(table)}
        position(v) == CHOOSE i \in 1..Len(lecs) : get_variable_name(lecs[i]) = v
        value(i, ts) == <<ts, PoolRooms[i], PoolInstructors[i]>>
    IN  {a \in {[v \in NameSet(lecs) |-> value(position(v), slot[v].TimeSlotID)] :
                    slot \in [NameSet(lecs) -> rows]} :
            check_all_constraints(a, lecs)}

\* The orders in which the dict of the caller holds the names of the lectures
\* lecs: the order of the list, started at any lecture.
KeyOrders(lecs) ==
    {[k \in 1..Len(lecs) |-> VarNames(lecs)[((k + first - 2) % Len(lecs)) + 1]] :
        first \in 1..Len(lecs)} \cup {VarNames(lecs)}

\* SoftConstraints.__init__ and the timetable the caller holds, a dict whose
\* keys were inserted in one of these orders.
RoomInit ==
    /\ timeslots = RoomTable
    /\ \E lecs \in RoomLectureLists :
          \E a \in RoomTimetables(lecs, timeslots), keys \in KeyOrders(lecs) :
              sargs = [assignment |-> a, lectures |-> lecs, keys |-> keys, run |-> 1]
    /\ sret = NoScore
    /\ sprev = [assignment |-> EmptyAssignment, ret |-> NoScore]
    /\ sframe = NoFrame
    /\ courses = <<>> /\ instructors = <<>> /\ rooms = <<>> /\ sections = <<>>
    /\ blectures = <<>> /\ bdomains = EmptyAssignment /\ requested = <<>> /\ bpc = "off"

InitRooms == RoomInit /\ SolverOff /\ CheckOff /\ GuiOff

NextRooms ==
    \/ ScoreCall
    \/ ReportCall
    \/ ScoreAccumulate
    \/ ScoreReturn
    \/ ReportReturn

SpecRooms == InitRooms /\ [][NextRooms]_vars

----------------------------------------------------------------------------
(* gui.py: TimetableGUI, the Generate and Stop buttons and the solver threads *)

\* What run_solver of a thread meets: the builder makes lectures or none (the
\* courses of the sections are in no row of the course table), and
\* solver.solve returns a timetable, None (also with no lecture, when the
\* first timeout test finds the timeout exceeded) or, with no lecture, its
\* empty assignment; or an exception is raised before.
Outcomes ==
    { [returns |-> "solution", empty |-> FALSE],
      [returns |-> "none",     empty |-> FALSE],
      [returns |-> "none",     empty |-> TRUE],
      [returns |-> "empty",    empty |-> TRUE],
      [returns |-> "error",    empty |-> FALSE] }

GuiInit == NewGui("normal")

InitGui == GuiInit /\ SolverOff /\ BuilderOff /\ CheckOff /\ ScoreOff

\* TimetableGUI.start_generation, the command of the Generate button (a
\* disabled button runs no command, and the main thread runs one callback at
\* a time): with no section selected or no data loaded it returns before
\* anything changed (lines 343 to 349); else the buttons change and the
\* timeout is read, and a new thread starts on run_solver unless the read
\* raised (line 368, an entry that IntVar.get cannot read).
start_generation ==
    /\ main.pc = "idle"
    /\ self.generate_btn = "normal"
    /\ Len(threads) < MaxThreads
    /\ \E click \in {"returns", "raises", "starts"} :
          /\ self' = IF click = "returns" THEN self
                     ELSE [self EXCEPT !.generate_btn = "disabled", !.stop_btn = "normal"]
          /\ threads' = IF click = "starts"
                        THEN Append(threads, [pc |-> "started", outcome |-> "none",
                                              empty |-> FALSE])
                        ELSE threads
    /\ UNCHANGED <<shown, main, solverVars, builderVars, checkVars, scoreVars>>

\* TimetableGUI.stop_generation, the command of the Stop button: the buttons
\* change, no thread is told anything.
stop_generation ==
    /\ main.pc = "idle"
    /\ self.stop_btn = "normal"
    /\ self' = [self EXCEPT !.generate_btn = "normal", !.stop_btn = "disabled"]
    /\ UNCHANGED <<threads, shown, main, solverVars, builderVars, checkVars, scoreVars>>

\* run_solver of thread t up to the return of solver.solve, or to the except
\* clause, which puts the error message.
RunSolve(t, outcome) ==
    /\ threads[t].pc = "started"
    /\ IF outcome.returns = "error"
       THEN /\ threads' = [threads EXCEPT ![t] = [pc |-> "done", outcome |-> outcome.returns,
                                                  empty |-> outcome.empty]]
            /\ self' = [self EXCEPT !.message_queue = Append(@, [type |-> "error", thread |-> t])]
       ELSE /\ threads' = [threads EXCEPT ![t] = [pc |-> "solved", outcome |-> outcome.returns,
                                                  empty |-> outcome.empty]]
            /\ self' = self
    /\ UNCHANGED <<shown, main, solverVars, builderVars, checkVars, scoreVars>>

\* run_solver: self.lectures = lectures
StoreLectures(t) ==
    /\ threads[t].pc = "solved"
    /\ self' = [self EXCEPT !.lectures = t]
    /\ threads' = [threads EXCEPT ![t].pc = "lectures"]
    /\ UNCHANGED <<shown, main, solverVars, builderVars, checkVars, scoreVars>>

\* run_solver: self.solver = solver
StoreSolver(t) ==
    /\ threads[t].pc = "lectures"
    /\ self' = [self EXCEPT !.solver = t]
    /\ threads' = [threads EXCEPT ![t].pc = "solver"]
    /\ UNCHANGED <<shown, main, solverVars, builderVars, checkVars, scoreVars>>

\* run_solver: self.solution = solution
StoreSolution(t) ==
    /\ threads[t].pc = "solver"
    /\ self' = [self EXCEPT !.solution =
                    [thread |-> t,
                     value |-> CASE threads[t].outcome = "solution" -> "timetable"
                                 [] threads[t].outcome = "empty" -> "empty"
                                 [] OTHER -> "None"]]
    /\ threads' = [threads EXCEPT ![t].pc = "solution"]
    /\ UNCHANGED <<shown, main, solverVars, builderVars, checkVars, scoreVars>>

\* run_solver: "if solution" puts the success message, else (None or the
\* empty dict) the failure message, and the thread ends.
PutOutcome(t) ==
    /\ threads[t].pc = "solution"
    /\ self' = [self EXCEPT !.message_queue =
                    Append(@, [type |-> IF threads[t].outcome = "solution"
                                        THEN "success" ELSE "failure",
                               thread |-> t])]
    /\ threads' = [threads EXCEPT ![t].pc = "done"]
    /\ UNCHANGED <<shown, main, solverVars, builderVars, checkVars, scoreVars>>

\* check_queue, get_nowait gives a message: on_solution_found, which sets the
\* buttons and goes on to the three displays, or on_solution_failed or
\* on_error, which set the buttons and come back to the loop.
Dispatch ==
    /\ self.message_queue # <<>>
    /\ self' = [self EXCEPT !.message_queue = Tail(@),
                            !.generate_btn = "normal", !.stop_btn = "disabled"]
    /\ IF Head(self.message_queue).type = "success"
       THEN /\ main' = [main EXCEPT !.pc = "display_timetable"]
            /\ shown' = [NothingShown EXCEPT !.message = Head(self.message_queue).thread]
       ELSE /\ main' = [main EXCEPT !.pc = "loop"]
            /\ shown' = shown
    /\ UNCHANGED <<threads, solverVars, builderVars, checkVars, scoreVars>>

\* TimetableGUI.check_queue, called by the timer of root.after while the
\* queue is polled, up to the end of the handler of its first message (with
\* an empty queue the call changes nothing).
check_queue == main.pc = "idle" /\ main.polling /\ Dispatch

\* check_queue, the next turn of "while True" with a message in the queue.
NextMessage == main.pc = "loop" /\ Dispatch

\* check_queue, queue.Empty: the loop ends and root.after schedules the next
\* call.
QueueEmpty ==
    /\ main.pc = "loop"
    /\ self.message_queue = <<>>
    /\ main' = [main EXCEPT !.pc = "idle"]
    /\ UNCHANGED <<self, threads, shown, solverVars, builderVars, checkVars, scoreVars>>

\* An exception leaves the handler and check_queue before root.after: the
\* queue is polled no more.
Stopped == [Idle EXCEPT !.polling = FALSE]

\* The handler has read the lectures, the solver or the solution of thread t.
Read(field, t) == [shown EXCEPT ![field] = @ \cup {t}]

\* display_timetable, line 496, reads self.solution: "if not self.solution:
\* return" (None and the empty dict).
display_timetable ==
    /\ main.pc = "display_timetable"
    /\ shown' = Read("solution", self.solution.thread)
    /\ main' = [main EXCEPT !.pc = IF self.solution.value = "timetable"
                                   THEN "timetable_items" ELSE "display_statistics"]
    /\ UNCHANGED <<self, threads, solverVars, builderVars, checkVars, scoreVars>>

\* display_timetable, line 501, reads self.solution again for its items: None
\* has no items method (AttributeError), the empty dict has no item, so the
\* loop and the rest of the method write nothing, a timetable has one item or
\* more.
TimetableItems ==
    /\ main.pc = "timetable_items"
    /\ shown' = Read("solution", self.solution.thread)
    /\ main' = CASE self.solution.value = "timetable" ->
                        [main EXCEPT !.pc = "timetable_lecture", !.solution = self.solution]
                 [] self.solution.value = "empty" ->
                        [main EXCEPT !.pc = "display_statistics"]
                 [] OTHER -> Stopped
    /\ UNCHANGED <<self, threads, solverVars, builderVars, checkVars, scoreVars>>

\* display_timetable, line 502, reads self.lectures for one item of the
\* timetable it iterates; after the last item the sections are written and
\* the method returns.
TimetableLecture ==
    /\ main.pc = "timetable_lecture"
    /\ shown' = Read("lectures", self.lectures)
    /\ \E last \in BOOLEAN :
          /\ ~last => main.step + 1 < MaxItems
          /\ main' = IF last
                     THEN [main EXCEPT !.pc = "display_statistics", !.step = 0,
                                       !.solution = NoSolution]
                     ELSE [main EXCEPT !.step = @ + 1]
    /\ UNCHANGED <<self, threads, solverVars, builderVars, checkVars, scoreVars>>

\* display_statistics, line 575, reads self.solution: "if not self.solution
\* or ...: return".
display_statistics ==
    /\ main.pc = "display_statistics"
    /\ shown' = Read("solution", self.solution.thread)
    /\ main' = [main EXCEPT !.pc = IF self.solution.value = "timetable"
                                   THEN "statistics_test" ELSE "calculate_quality"]
    /\ UNCHANGED <<self, threads, solverVars, builderVars, checkVars, scoreVars>>

\* display_statistics, line 575, reads self.solver: "... or not self.solver:
\* return".
StatisticsTest ==
    /\ main.pc = "statistics_test"
    /\ shown' = Read("solver", self.solver)
    /\ main' = [main EXCEPT !.pc = IF self.solver # 0 THEN "statistics_solver"
                                   ELSE "calculate_quality"]
    /\ UNCHANGED <<self, threads, solverVars, builderVars, checkVars, scoreVars>>

\* display_statistics, lines 578 to 584, reads self.solver again and its
\* statistics: the solver of a solve call that returned None or had no
\* lecture has an empty assignment, its get_solution_statistics returns {}
\* and stats['total_assigned'] raises KeyError.
StatisticsSolver ==
    /\ main.pc = "statistics_solver"
    /\ shown' = Read("solver", self.solver)
    /\ main' = IF self.solver # 0 /\ threads[self.solver].outcome # "solution"
               THEN Stopped
               ELSE [main EXCEPT !.pc = "calculate_quality"]
    /\ UNCHANGED <<self, threads, solverVars, builderVars, checkVars, scoreVars>>

\* calculate_quality, line 613, reads self.solution: "if not self.solution
\* or ...: return", and on_solution_found ends.
calculate_quality ==
    /\ main.pc = "calculate_quality"
    /\ shown' = Read("solution", self.solution.thread)
    /\ main' = [main EXCEPT !.pc = IF self.solution.value = "timetable"
                                   THEN "quality_test" ELSE "loop"]
    /\ UNCHANGED <<self, threads, solverVars, builderVars, checkVars, scoreVars>>

\* calculate_quality, line 613, reads self.lectures: "... or not
\* self.lectures: return" (None and the empty list, which a thread whose
\* builder made no lecture has stored).
QualityTest ==
    /\ main.pc = "quality_test"
    /\ shown' = Read("lectures", self.lectures)
    /\ main' = IF self.lectures # 0 /\ ~threads[self.lectures].empty
               THEN [main EXCEPT !.pc = "quality_reads", !.step = 1]
               ELSE [main EXCEPT !.pc = "loop"]
    /\ UNCHANGED <<self, threads, solverVars, builderVars, checkVars, scoreVars>>

\* calculate_quality, lines 623 to 628: the attribute that each read of the
\* five calls takes, in the order of the reads, and the call made once the
\* arguments of a line are read.
QualityReads ==
    << [reads |-> "solution", calls |-> "none"],
       [reads |-> "lectures", calls |-> "calculate_quality_score"],              \* 623
       [reads |-> "solution", calls |-> "none"],
       [reads |-> "lectures", calls |-> "_calculate_gap_penalty"],               \* 625
       [reads |-> "solution", calls |-> "none"],
       [reads |-> "lectures", calls |-> "_calculate_balance_bonus"],             \* 626
       [reads |-> "solution", calls |-> "_calculate_time_preference_penalty"],   \* 627
       [reads |-> "solution", calls |-> "none"],
       [reads |-> "lectures", calls |-> "_calculate_room_distance_penalty"] >>   \* 628

\* calculate_quality, one read of lines 623 to 628, and the call when the
\* read is the last of its line: every call iterates the items of the dict
\* it is given (AttributeError on None, nothing to iterate in the empty
\* dict), and the two calls that compute the room distance raise ValueError
\* on some timetables; after the last call the report is written and
\* on_solution_found ends.
QualityRead ==
    /\ main.pc = "quality_reads"
    /\ \E read \in {QualityReads[main.step]}, raises \in BOOLEAN :
          LET solution == IF read.reads = "solution" THEN self.solution ELSE main.solution
              failed   == \/ read.calls # "none" /\ solution.value = "None"
                          \/ /\ raises
                             /\ solution.value = "timetable"
                             /\ read.calls \in {"calculate_quality_score",
                                                "_calculate_room_distance_penalty"}
          IN  /\ shown' = IF read.reads = "solution"
                          THEN Read("solution", self.solution.thread)
                          ELSE Read("lectures", self.lectures)
              /\ main' = IF failed THEN Stopped
                         ELSE IF main.step = Len(QualityReads)
                              THEN [main EXCEPT !.pc = "loop", !.step = 0,
                                                !.solution = NoSolution]
                              ELSE [main EXCEPT !.step = @ + 1, !.solution = solution]
    /\ UNCHANGED <<self, threads, solverVars, builderVars, checkVars, scoreVars>>

NextGui ==
    \/ start_generation
    \/ stop_generation
    \/ \E t \in 1..Len(threads), outcome \in Outcomes : RunSolve(t, outcome)
    \/ \E t \in 1..Len(threads) : StoreLectures(t)
    \/ \E t \in 1..Len(threads) : StoreSolver(t)
    \/ \E t \in 1..Len(threads) : StoreSolution(t)
    \/ \E t \in 1..Len(threads) : PutOutcome(t)
    \/ check_queue
    \/ NextMessage
    \/ QueueEmpty
    \/ display_timetable
    \/ TimetableItems
    \/ TimetableLecture
    \/ display_statistics
    \/ StatisticsTest
    \/ StatisticsSolver
    \/ calculate_quality
    \/ QualityTest
    \/ QualityRead

SpecGui == InitGui /\ [][NextGui]_vars

----------------------------------------------------------------------------
(* Vocabulary of the properties *)

\* The sections of the lectures named v.
SectionsOf(v, lecs) == {lecs[i].section_id : i \in {j \in 1..Len(lecs) : get_variable_name(lecs[j]) = v}}

\* No two keys share (instructor, timeslot) or (room, timeslot), and no two
\* keys of one section share a timeslot.
ConflictFree(a, lecs) ==
    \A v, w \in DOMAIN a :
        (v # w /\ TimeslotOf(a[v]) = TimeslotOf(a[w])) =>
            /\ InstructorOf(a[v]) # InstructorOf(a[w])
            /\ RoomOf(a[v]) # RoomOf(a[w])
            /\ SectionsOf(v, lecs) \cap SectionsOf(w, lecs) = {}

Range(seq) == {seq[i] : i \in 1..Len(seq)}

\* The complete assignments that can be drawn from the domains.
CompleteAssignments(lecs, doms) ==
    {a \in [NameSet(lecs) -> Range(ValuePool)] :
        \A v \in NameSet(lecs) : a[v] \in Range(DomainsGet(doms, v))}

Feasible(lecs, doms) == \E a \in CompleteAssignments(lecs, doms) : ConflictFree(a, lecs)

DistinctNames(lecs) == \A i, j \in 1..Len(lecs) :
    get_variable_name(lecs[i]) = get_variable_name(lecs[j]) => i = j

HasEmptyDomain(lecs, doms) == \E v \in NameSet(lecs) : DomainsGet(doms, v) = <<>>

Returned == pc = "done"
Solved == Returned /\ ~result.isNone
Failed == Returned /\ result.isNone
Started == pc = "call" /\ iterations = 0

\* What an Optional[Dict] tells its receiver.
OutcomeOf(r) == IF r.isNone THEN "no-solution" ELSE "solution"

\* The character at position k of a cell, and a run of white space.
CharAt(text, k) == SubSeq(text, k, k)
Blank(text, from, to) == \A k \in from..to : CharAt(text, k) \in Whitespace

\* The characters i..j of a cell are one of its comma separated items: they
\* stand between two commas, or an end of the cell, with nothing but white
\* space around them.
ItemAt(text, i, j) ==
    /\ i <= j
    /\ CharAt(text, i) \notin Whitespace /\ CharAt(text, j) \notin Whitespace
    /\ \A k \in i..j : CharAt(text, k) # ","
    /\ \E from \in 1..i :
          (from = 1 \/ CharAt(text, from - 1) = ",") /\ Blank(text, from, i - 1)
    /\ \E to \in j..Len(text) :
          (to = Len(text) \/ CharAt(text, to + 1) = ",") /\ Blank(text, j + 1, to)

\* How often the comma separated items of a cell name the id.
Listed(text, id) ==
    Cardinality({p \in (1..Len(text)) \X (1..Len(text)) :
                    ItemAt(text, p[1], p[2]) /\ SubSeq(text, p[1], p[2]) = id})

\* The room type a course asks for: "Lab" when its type contains "Lab".
RoomTypeFor(course) ==
    IF \E i \in 1..Len(course.Type) : \E j \in i..Len(course.Type) :
            SubSeq(course.Type, i, j) = "Lab"
    THEN "Lab" ELSE "Lecture"

\* The course is one of the comma separated qualified courses of the row.
Qualified(instructor, course_id) == Listed(instructor.QualifiedCourses, course_id) > 0

\* The preferred slots of the row read "Not on <day>", with nothing but white
\* space before "Not on ", between it and the day, and after the day.
ExcludesDay(instructor, day) ==
    \E pref \in {instructor.PreferredSlots} :
        \E at \in 1..Len(pref), i \in 1..Len(pref) :
            /\ Blank(pref, 1, at - 1)
            /\ SubSeq(pref, at, at + 6) = "Not on "
            /\ at + 7 <= i
            /\ Blank(pref, at + 7, i - 1)
            /\ SubSeq(pref, i, i + Len(day) - 1) = day
            /\ Blank(pref, i + Len(day), Len(pref))

\* The section ids a request can hold and the course ids a section can list.
RequestIds == {"S1", "S2"}
ListedIds == {"C1", "C2", "C9"}

\* How often the Courses cell of a section row lists the course.
ListedCourses(row, course_id) == Listed(row.Courses, course_id)

\* How often x occurs in the sequence seq.
Occurrences(seq, x) == Cardinality({i \in 1..Len(seq) : seq[i] = x})

\* The sessions per week of a course with the given credits.
CreditTable(credits) ==
    IF credits \in 1..5 THEN <<1, 1, 2, 2, 3>>[credits] ELSE 2

\* How many lectures (s, c, k) the request asks for.
ExpectedLectures(s, c, k) ==
    LET listed == {row \in Range(sections) : row.SectionID = s}
        known == {course \in Range(courses) : course.CourseID = c}
    IN  IF listed = {} \/ known = {} THEN 0
        ELSE LET row == CHOOSE r \in listed : TRUE
                 course == CHOOSE r \in known : TRUE
             IN  IF k \in 1..CreditTable(course.Credits)
                 THEN Occurrences(requested, s) * ListedCourses(row, c)
                 ELSE 0

\* The value collides with the value of no other key of the assignment.
NewPairFree(var, value, a, lecs) ==
    \A w \in DOMAIN a \ {var} :
        ConflictFree([v \in {var, w} |-> IF v = var THEN value ELSE a[w]], lecs)

\* The (instructor, timeslot), (room, timeslot) and (section, timeslot) pairs
\* that more than one key of the assignment has.
SameTime(a) ==
    {p \in (DOMAIN a) \X (DOMAIN a) : p[1] # p[2] /\ TimeslotOf(a[p[1]]) = TimeslotOf(a[p[2]])}
InstructorClashes(a) ==
    {<<InstructorOf(a[p[1]]), TimeslotOf(a[p[1]])>> :
        p \in {q \in SameTime(a) : InstructorOf(a[q[1]]) = InstructorOf(a[q[2]])}}
RoomClashes(a) ==
    {<<RoomOf(a[p[1]]), TimeslotOf(a[p[1]])>> :
        p \in {q \in SameTime(a) : RoomOf(a[q[1]]) = RoomOf(a[q[2]])}}
SectionClashes(a, lecs) ==
    UNION {{<<s, TimeslotOf(a[p[1]])>> : s \in SectionsOf(p[1], lecs) \cap SectionsOf(p[2], lecs)} :
              p \in SameTime(a)}

\* The records of one rule in what get_conflicts returned.
RecordsOf(kind) == {r \in cret.conflicts : r.kind = kind}

\* The position of a timeslot in the ordered timeslot sequence of its weekday.
PositionInDay(timeslot) ==
    LET day == SelectSeq(timeslots, LAMBDA row : row.Day = DayOf(timeslot))
    IN  CHOOSE k \in 1..Len(day) : day[k].TimeSlotID = timeslot

\* The positions of the sessions of section s on weekday d in the timetable a.
SessionsOn(a, lecs, s, d) ==
    {PositionInDay(TimeslotOf(a[v])) :
        v \in {w \in DOMAIN a : s \in SectionsOf(w, lecs) /\ DayOf(TimeslotOf(a[w])) = d}}

\* The unoccupied positions strictly between the earliest and the latest
\* session of section s on weekday d (0 with fewer than two sessions).
IdleBetween(a, lecs, s, d) ==
    LET P == SessionsOn(a, lecs, s, d)
    IN  IF Cardinality(P) < 2 THEN 0
        ELSE Cardinality({k \in 1..Len(timeslots) :
                             /\ k \notin P
                             /\ \E lo, hi \in P : lo < k /\ k < hi})

\* The idle slots of the timetable: the sum over every section and weekday.
IdleSlots(a, lecs) ==
    LET S == {lecs[i].section_id : i \in 1..Len(lecs)}
        D == {timeslots[k].Day : k \in 1..Len(timeslots)}
    IN  SumOf([k \in S \X D |-> IdleBetween(a, lecs, k[1], k[2])])

\* The timetables a and b of the same lectures give every lecture the same
\* room, the same instructor and the same weekday.
SameElse(a, b) ==
    /\ DOMAIN a = DOMAIN b
    /\ \A v \in DOMAIN a :
          /\ RoomOf(a[v]) = RoomOf(b[v])
          /\ InstructorOf(a[v]) = InstructorOf(b[v])
          /\ DayOf(TimeslotOf(a[v])) = DayOf(TimeslotOf(b[v]))

\* x and y differ only in two sessions u and v of one section on one weekday:
\* x has exactly one idle slot between them, y places them back to back.
OneIdleThenNone(x, y, lecs) ==
    /\ SameElse(x, y)
    /\ \E u, v \in DOMAIN x :
          /\ u # v
          /\ SectionsOf(u, lecs) \cap SectionsOf(v, lecs) # {}
          /\ DayOf(TimeslotOf(x[u])) = DayOf(TimeslotOf(x[v]))
          /\ \A w \in DOMAIN x \ {u, v} : x[w] = y[w]
          /\ x # y
          /\ PositionInDay(TimeslotOf(x[v])) = PositionInDay(TimeslotOf(x[u])) + 2
          /\ \A w \in DOMAIN x :
                (/\ SectionsOf(w, lecs) \cap SectionsOf(u, lecs) # {}
                 /\ DayOf(TimeslotOf(x[w])) = DayOf(TimeslotOf(x[u])))
                    => PositionInDay(TimeslotOf(x[w])) # PositionInDay(TimeslotOf(x[u])) + 1
          /\ PositionInDay(TimeslotOf(y[v])) = PositionInDay(TimeslotOf(y[u])) + 1

\* Two calls of calculate_quality_score have returned: the last one on the
\* timetable the caller holds, the one before on sprev.assignment.
TwoScores ==
    /\ sret.method = "calculate_quality_score" /\ sret.status = "returned"
    /\ sprev.ret.status = "returned"

\* The terms of two scores other than the gap penalty are equal.
OtherTermsEqual(r, q) == r.balance = q.balance /\ r.time = q.time /\ r.room = q.room

\* How many values of the domain of v the partial assignment a leaves free
\* of conflicts.
ConsistentCount(v, lecs, doms, a) ==
    Cardinality({i \in 1..Len(DomainsGet(doms, v)) :
                    ConflictFree(Extend(a, v, DomainsGet(doms, v)[i]), lecs)})

\* v is an unassigned lecture with the smallest count, the first such one in
\* the lectures list.
FirstWithFewest(v, lecs, doms, a) ==
    /\ v \in NameSet(lecs) \ DOMAIN a
    /\ \A w \in NameSet(lecs) \ DOMAIN a :
          ConsistentCount(v, lecs, doms, a) <= ConsistentCount(w, lecs, doms, a)
    /\ \E i \in 1..Len(lecs) :
          /\ get_variable_name(lecs[i]) = v
          /\ \A j \in 1..(i - 1) :
                get_variable_name(lecs[j]) \notin DOMAIN a =>
                    ConsistentCount(get_variable_name(lecs[j]), lecs, doms, a)
                        > ConsistentCount(v, lecs, doms, a)

\* A _backtrack call has just selected its variable and entered its loop.
JustSelected == pc = "loop" /\ Top.taken = 0

----------------------------------------------------------------------------
(* Properties *)

\* C1 (soundness): an assignment returned by solve has no two lectures with the
\* same (instructor, timeslot), none with the same (room, timeslot), no two
\* lectures of one section at one timeslot, and get_conflicts finds nothing.
C1_Soundness ==
    Solved => /\ ConflictFree(result.value, lectures)
              /\ get_conflicts(result.value, lectures) = {}

\* Two lectures were placed at the same timeslot in a solution that was
\* returned after one of the timeout tests of the call had found the timeout
\* exceeded and a later one had not.
C1_Witness ==
    /\ Solved
    /\ timedOut
    /\ \E v, w \in DOMAIN result.value :
          v # w /\ TimeslotOf(result.value[v]) = TimeslotOf(result.value[w])

\* C2 (full assignment): the keys of a returned assignment are exactly the
\* variable names of the lectures, and each value belongs to the domain of its
\* lecture.
C2_FullAssignment ==
    Solved => /\ DOMAIN result.value = NameSet(lectures)
              /\ \A v \in DOMAIN result.value :
                    result.value[v] \in Range(DomainsGet(domains, v))

C2_Witness ==
    /\ Solved
    /\ Size(result.value) = 2
    /\ \E v \in DOMAIN result.value : Len(DomainsGet(domains, v)) > 1

\* C3 (completeness without timeout): with distinct variable names and a
\* conflict-free complete assignment in the domains, a solve call ends, and
\* unless one of its _backtrack calls has read an elapsed time above the
\* timeout it ends with a solution that holds every lecture key.
C3_FeasibleIsSolved ==
    (Started /\ DistinctNames(lectures) /\ Feasible(lectures, domains))
        ~> (Returned /\ (timedOut \/ (~result.isNone /\ DOMAIN result.value = NameSet(lectures))))

\* A solution was returned after a committed value had to be undone, and no
\* _backtrack call has read an elapsed time above the timeout.
C3_Witness ==
    /\ Solved /\ ~timedOut
    /\ Len(lectures) = 2
    /\ commits > Len(lectures)

\* The number of values that a search from assignment a commits when it
\* tries every consistent value of every variable it selects and none of its
\* branches ends in a solution.
RECURSIVE TreeSize(_, _, _)
TreeSize(lecs, doms, a) ==
    LET var == select_unassigned_variable(lecs, doms, a)
        RECURSIVE Below(_)
        Below(i) ==
            IF i = 0 THEN 0
            ELSE Below(i - 1)
                 + (IF is_consistent(var, DomainsGet(doms, var)[i], a, lecs)
                    THEN 1 + TreeSize(lecs, doms, Extend(a, var, DomainsGet(doms, var)[i]))
                    ELSE 0)
    IN  IF is_complete(a, lecs) \/ var = NoVar THEN 0
        ELSE Below(Len(DomainsGet(doms, var)))

\* The search has tried every branch: it has committed every consistent
\* value of every variable it selected, and removed every one of them again.
Exhausted ==
    /\ assignment = EmptyAssignment
    /\ commits = TreeSize(lectures, domains, EmptyAssignment)
    /\ iterations = commits + 1

\* C4 (exhaustion): when no complete assignment of the domains is conflict
\* free, a solve call ends and returns None, and unless one of its _backtrack
\* calls has read an elapsed time above the timeout it does so as exhausted,
\* after it has tried every branch of the search.
C4_InfeasibleIsExhausted ==
    (Started /\ ~Feasible(lectures, domains))
        ~> (Failed /\ (timedOut \/ (TerminalOf(result, timedOut) = "exhausted" /\ Exhausted)))

\* Forced conflict: every domain has a value, values were committed and
\* removed again, and the search ended as exhausted with no reading above the
\* timeout.
C4_Witness ==
    /\ Failed /\ ~timedOut
    /\ ~HasEmptyDomain(lectures, domains)
    /\ DistinctNames(lectures)
    /\ commits > 1

\* C5 (empty-domain short-circuit): when a lecture has an empty domain (or no
\* entry), no value is ever committed, and solve returns None after exactly one
\* _backtrack invocation.
C5_EmptyDomainShortCircuit ==
    (pc # "idle" /\ HasEmptyDomain(lectures, domains)) =>
        /\ commits = 0
        /\ Size(assignment) = 0
        /\ iterations <= 1
        /\ Returned => (result.isNone /\ iterations = 1)

\* The lecture without values is not the first of the list, the first one has
\* values, and the timeout played no part.
C5_Witness ==
    /\ Failed /\ ~timedOut
    /\ Len(lectures) = 2
    /\ DomainsGet(domains, get_variable_name(lectures[1])) # <<>>
    /\ DomainsGet(domains, get_variable_name(lectures[2])) = <<>>

\* C6 (failure kinds): the value solve returns on failure tells timed-out from
\* exhausted, so two failed calls with the same return value ended in the same
\* terminal state.
C6_FailureTellsTerminalState ==
    \A f, g \in failures : f.result = g.result => f.state = g.state

\* C7 (malformed configuration): with a negative timeout or an empty lecture
\* list no search step is executed, and the outcome is an invalid-input one.
C7_MalformedRejected ==
    (pc # "idle" /\ (timeout < 0 \/ Len(lectures) = 0)) =>
        /\ iterations = 0
        /\ Returned => OutcomeOf(result) = "invalid-input"

\* C8 (completeness test first): a search that has reached an assignment as
\* large as the lecture list does not end as no-solution.
C8_CompleteNeverFails ==
    (Returned /\ maxAssigned = Len(lectures)) => ~result.isNone

\* C9 (best partial size): after a failed solve the size of solver.assignment
\* is the largest assignment size reached during the search.
C9_BestPartialSizeKept ==
    Failed => Size(assignment) = maxAssigned

\* C10 (unary filters of the domains): every triple that build_domains stored
\* for a lecture names a room whose type is Lab when the type of the course
\* holds the word Lab and Lecture otherwise, an instructor whose qualified
\* courses hold the course of the lecture, and a timeslot whose day is not the
\* day the instructor's preferred slots exclude with "Not on <day>".
C10_UnaryFilters ==
    \A n \in 1..Len(blectures) :
        \A name \in {get_variable_name(blectures[n])} \cap DOMAIN bdomains :
            \A k \in 1..Len(bdomains[name]) :
                \E course \in Range(courses), ts \in Range(timeslots),
                   room \in Range(rooms), instructor \in Range(instructors) :
                    /\ course.CourseID = blectures[n].course_id
                    /\ ts.TimeSlotID = bdomains[name][k][1]
                    /\ room.RoomID = bdomains[name][k][2]
                    /\ instructor.InstructorID = bdomains[name][k][3]
                    /\ room.Type = RoomTypeFor(course)
                    /\ Qualified(instructor, course.CourseID)
                    /\ ~ExcludesDay(instructor, ts.Day)

\* A domain was built from tables that hold a room of the other type, an
\* instructor that the domain does not use, and an instructor that the domain
\* uses but not at a timeslot that it uses with another instructor; one of the
\* instructors it uses has a tab, a carriage return or a form feed next to the
\* course in the cell of the qualified courses.
C10_Witness ==
    /\ bpc = "built"
    /\ \E name \in DOMAIN bdomains :
          \E d \in {Range(bdomains[name])} :
              /\ d # {}
              /\ \E instructor \in Range(instructors), v \in d :
                    /\ v[3] = instructor.InstructorID
                    /\ \E k \in 1..Len(instructor.QualifiedCourses) :
                          CharAt(instructor.QualifiedCourses, k) \in Whitespace \ {" "}
              /\ \E room \in Range(rooms) : \A v \in d : v[2] # room.RoomID
              /\ \E instructor \in Range(instructors) : \A v \in d : v[3] # instructor.InstructorID
              /\ \E v, w \in d : \A u \in d : ~(u[1] = v[1] /\ u[3] = w[3])

\* C11 (an entry for every lecture): after build_domains the mapping has an
\* entry for the variable name of every lecture of the builder, and the entry
\* of a lecture whose course has no qualified instructor, or no room of the
\* required type, is the empty domain.
C11_EveryLectureHasEntry ==
    bpc = "built" =>
        \A n \in 1..Len(blectures) :
            \E name \in {get_variable_name(blectures[n])} :
                /\ name \in DOMAIN bdomains
                /\ \A course \in Range(courses) :
                      (/\ course.CourseID = blectures[n].course_id
                       /\ \/ \A instructor \in Range(instructors) :
                                 ~Qualified(instructor, course.CourseID)
                          \/ \A room \in Range(rooms) : room.Type # RoomTypeFor(course))
                          => bdomains[name] = <<>>

\* C12 (missing course reference): build_lectures_for_sections succeeds for
\* every request; for every section, course and number k, the lectures
\* (section, course, k) it created are as many as the section is requested
\* times the course is listed by the section, when the course is in the course
\* table and k is in 1..n with n given by the credit table {1:1, 2:1, 3:2,
\* 4:2, 5:3, otherwise 2}, and none otherwise; nothing else is created.
C12_MissingCourseSkipped ==
    /\ \A credits \in 0..7 : calculate_lectures_per_week(credits) = CreditTable(credits)
    /\ bpc \in {"lectures", "built"} =>
          /\ \A s \in RequestIds, c \in ListedIds, k \in 1..3 :
                Occurrences(blectures, Lecture(c, s, k)) = ExpectedLectures(s, c, k)
          /\ \A n \in 1..Len(blectures) :
                /\ blectures[n].section_id \in RequestIds
                /\ blectures[n].course_id \in ListedIds
                /\ blectures[n].lecture_number \in 1..3

\* Section S2, which lists a course that the course table does not hold, was
\* requested before section S1: S2 got the lectures of its known course and S1
\* got its lectures, two of them for one course.
C12_Witness ==
    /\ bpc = "lectures"
    /\ \E row \in Range(sections) :
          /\ row.SectionID = "S2"
          /\ \E c \in {id \in ListedIds : ListedCourses(row, id) > 0} :
                \A course \in Range(courses) : course.CourseID # c
    /\ \E i, j \in 1..Len(blectures) :
          /\ i < j
          /\ blectures[i].section_id = "S2"
          /\ blectures[j].section_id = "S1"
          /\ blectures[j].lecture_number = 2

\* C13 (distinct identity keys): the variable names of the lectures that
\* build_lectures_for_sections produced are pairwise distinct.
C13_DistinctKeys ==
    DistinctNames(blectures)

\* C14: is_consistent(var, value, assignment, lectures) is true exactly when
\* the assignment extended with var := value has no two keys with the same
\* (instructor, timeslot), none with the same (room, timeslot) and no two keys
\* of lectures of one section with the same timeslot; the whole resulting
\* assignment is tested, not only the new pair.
C14_ConsistentIffNoClash ==
    cret.method = "is_consistent" =>
        (cret.result <=>
            ConflictFree(Extend(cargs.assignment, cret.var, cret.value), cargs.lectures))

\* A call that returned false although the new value collides with no other
\* key: two of the other keys collide.
C14_Witness ==
    /\ cret.method = "is_consistent"
    /\ ~cret.result
    /\ cret.var \notin DOMAIN cargs.assignment
    /\ NewPairFree(cret.var, cret.value, cargs.assignment, cargs.lectures)

\* C15: get_conflicts reports every rule on its own: one record for each
\* (instructor, timeslot), each (room, timeslot) and each (section, timeslot)
\* that more than one key has, so two lectures that collide on instructor,
\* room and section at one timeslot give exactly three records, and the
\* result is empty exactly when check_all_constraints is true.
C15_OneRecordPerClash ==
    cret.method = "get_conflicts" =>
        /\ {r.key : r \in RecordsOf("Instructor")} = InstructorClashes(cargs.assignment)
        /\ {r.key : r \in RecordsOf("Room")} = RoomClashes(cargs.assignment)
        /\ {r.key : r \in RecordsOf("Section")} = SectionClashes(cargs.assignment, cargs.lectures)
        /\ \A r, q \in cret.conflicts : (r.kind = q.kind /\ r.key = q.key) => r = q
        /\ \A r \in cret.conflicts :
              /\ r.kind \in {"Instructor", "Room", "Section"}
              /\ Cardinality(r.lectures_list) > 1
        /\ (cret.conflicts = {}) <=> check_all_constraints(cargs.assignment, cargs.lectures)
        /\ \A v, w \in DOMAIN cargs.assignment :
              (/\ DOMAIN cargs.assignment = {v, w} /\ v # w
               /\ cargs.assignment[v] = cargs.assignment[w]
               /\ SectionsOf(v, cargs.lectures) \cap SectionsOf(w, cargs.lectures) # {})
                  => Cardinality(cret.conflicts) = 3

\* C16: for every completed conflict-free assignment the gap penalty is 10
\* times the sum, over every (section, weekday) with at least two sessions,
\* of the unoccupied positions strictly between the earliest and the latest
\* session of the section on that weekday, positions taken in the ordered
\* timeslot sequence of the weekday, on every weekday (also TS8..TS11).
C16_GapPenaltyCountsIdle ==
    sret.status = "returned" =>
        sret.gap = 10 * IdleSlots(sargs.assignment, sargs.lectures)

\* C17: when X and Y differ only in that X has exactly one idle slot between
\* two sessions of one section on a weekday and Y has them back to back, and
\* the balance, time and room terms are equal, the score of Y is greater
\* than the score of X, on every weekday.
C17_BackToBackScoresHigher ==
    TwoScores =>
        /\ (/\ OneIdleThenNone(sprev.assignment, sargs.assignment, sargs.lectures)
            /\ OtherTermsEqual(sprev.ret, sret))
               => sret.score > sprev.ret.score
        /\ (/\ OneIdleThenNone(sargs.assignment, sprev.assignment, sargs.lectures)
            /\ OtherTermsEqual(sprev.ret, sret))
               => sprev.ret.score > sret.score

\* C18: when B has strictly fewer idle slots between the first and the last
\* session of a section on a weekday than A, everything else equal, the gap
\* penalty of B is at most the gap penalty of A.
C18_GapPenaltyMonotone ==
    (TwoScores /\ SameElse(sprev.assignment, sargs.assignment)) =>
        /\ IdleSlots(sargs.assignment, sargs.lectures)
               < IdleSlots(sprev.assignment, sargs.lectures)
               => sret.gap <= sprev.ret.gap
        /\ IdleSlots(sprev.assignment, sargs.lectures)
               < IdleSlots(sargs.assignment, sargs.lectures)
               => sprev.ret.gap <= sret.gap

\* C19: calculate_quality_score returns a score and raises no error for every
\* completed assignment whose values are a timeslot id of the table, a room
\* id and an instructor id, whatever the ids are named.
C19_ScoringNeverRaises ==
    sret.method = "calculate_quality_score" => sret.status = "returned"

\* C21: at every decision point _select_unassigned_variable returns an
\* unassigned lecture whose count of values consistent with the partial
\* assignment is the smallest, the first such lecture of the lectures list,
\* and it returns None only when every lecture name is assigned.
C21_MinimumRemainingValues ==
    /\ pc = "call" =>
          \E var_name \in {select_unassigned_variable(lectures, domains, assignment)} :
              /\ var_name = NoVar <=> NameSet(lectures) \subseteq DOMAIN assignment
              /\ var_name # NoVar => FirstWithFewest(var_name, lectures, domains, assignment)
    /\ JustSelected => FirstWithFewest(Top.var_name, lectures, domains, assignment)

\* The loop is entered for a lecture that is not the first one of the list:
\* it has fewer consistent values than the first one, and more than none.
C21_Witness ==
    /\ JustSelected
    /\ Len(lectures) > 1
    /\ Top.var_name # get_variable_name(lectures[1])
    /\ get_variable_name(lectures[1]) \notin DOMAIN assignment
    /\ ConsistentCount(Top.var_name, lectures, domains, assignment) > 0

\* C22: a value enters the assignment only when is_consistent accepts it, and
\* when a _backtrack call returns None the assignment is what it was when the
\* call was entered: the commit is removed before the next value is tried.
\* So every partial assignment is free of conflicts and holds one value for
\* a variable.
C22_BacktrackingDiscipline ==
    /\ ConflictFree(assignment, lectures)
    /\ DOMAIN assignment \subseteq NameSet(lectures)
    /\ pc = "loop" => assignment = Top.entry
    /\ (pc = "ret" /\ rv.isNone /\ Len(stack) > 0) =>
          /\ Top.var_name \in DOMAIN assignment
          /\ Remove(assignment, Top.var_name) = Top.entry
    /\ (pc \in {"ret", "done"} /\ rv.isNone /\ Len(stack) = 0) => assignment = EmptyAssignment
    /\ \A k \in 1..Len(stack) :
          /\ stack[k].var_name \notin DOMAIN stack[k].entry
          /\ k < Len(stack) =>
                /\ stack[k].var_name \in DOMAIN stack[k + 1].entry
                /\ Remove(stack[k + 1].entry, stack[k].var_name) = stack[k].entry

\* The inner call failed with two lectures assigned, its commit is removed
\* and the loop of the outer call goes on with what it was entered with.
C22_Witness ==
    /\ pc = "loop"
    /\ Len(stack) = 2
    /\ Top.taken > 0
    /\ commits > 1
    /\ maxAssigned > Size(assignment)
    /\ assignment = Top.entry
    /\ Size(assignment) = 1

\* C23: once a _backtrack call has read an elapsed time above the timeout,
\* the search ends timed out with no solution, no further value is committed
\* to the assignment and no further _backtrack call is started.
C23_TimeoutStopsSearch ==
    [][timedOut =>
          /\ commits' = commits
          /\ iterations' = iterations
          /\ pc' = "done" => result'.isNone]_vars

\* C24: the search never changes the domains: after a solve call every domain
\* has the elements it had before, in the same order; the random order of the
\* values is the order of a copy.
C24_DomainsUnchanged ==
    [][domains' = domains]_vars

\* The loop of a call has taken the last value of a domain of three values
\* first, then the first one.
C24_Witness ==
    /\ pc = "loop"
    /\ Len(DomainsGet(domains, Top.var_name)) = 3
    /\ Top.taken = 2
    /\ Top.ordered_values[1] = DomainsGet(domains, Top.var_name)[3]
    /\ Top.ordered_values[2] = DomainsGet(domains, Top.var_name)[1]
    /\ Top.var_name \notin DOMAIN assignment
    /\ commits = 1
    /\ maxAssigned = 1
    /\ DomainsGet(domains, Top.var_name)[1] # DomainsGet(domains, Top.var_name)[3]

\* C25: every solve call on a solver object starts its search with an empty
\* assignment and 0 iterations, whatever the earlier calls left, and the
\* assignment an earlier call returned is not changed by a later call.
C25_FreshStart ==
    [][/\ calls' # calls =>
             (assignment' = EmptyAssignment /\ iterations' = 0 /\ pc' = "call")
       /\ handed'.held => HandedValue' = handed'.value]_vars

\* The second call on an object has one lecture assigned and has timed out,
\* after a first call that returned an assignment.
C25_Witness ==
    /\ calls = 2
    /\ handed.held
    /\ ~handed.alias
    /\ Size(handed.value) > 0
    /\ Size(assignment) > 0
    /\ pc = "ret" /\ rv.isNone /\ timedOut

\* The triples (timeslot, room, instructor) of the tables that are legal for a
\* course: a room of the type the course asks for, and an instructor who is
\* qualified for the course and whose preferred slots do not exclude the day of
\* the timeslot.
LegalTriples(course) ==
    {<<ts.TimeSlotID, room.RoomID, instructor.InstructorID>> :
        <<ts, room, instructor>> \in
            {x \in Range(timeslots) \X Range(rooms) \X Range(instructors) :
                /\ x[2].Type = RoomTypeFor(course)
                /\ Qualified(x[3], course.CourseID)
                /\ ~ExcludesDay(x[3], x[1].Day)}}

\* The rows at which the ids of a triple stand in the three tables.
TimeslotRow(id) == CHOOSE k \in 1..Len(timeslots) : timeslots[k].TimeSlotID = id
RoomRow(id) == CHOOSE k \in 1..Len(rooms) : rooms[k].RoomID = id
InstructorRow(id) == CHOOSE k \in 1..Len(instructors) : instructors[k].InstructorID = id

\* Triple v stands before triple w when the timeslots are outermost, the rooms
\* in the middle and the instructors innermost, each in table order.
LoopOrder(v, w) ==
    \/ TimeslotRow(v[1]) < TimeslotRow(w[1])
    \/ /\ v[1] = w[1]
       /\ \/ RoomRow(v[2]) < RoomRow(w[2])
          \/ v[2] = w[2] /\ InstructorRow(v[3]) < InstructorRow(w[3])

\* C26 (the domain is the ordered list of the legal triples): after
\* build_domains, for every lecture whose course has a qualified instructor,
\* the stored domain holds exactly the legal triples of the course, each once,
\* with the timeslots outermost, the rooms in the middle and the instructors
\* innermost, each in the order of its table.
C26_DomainIsOrderedLegalTriples ==
    bpc = "built" =>
        \A n \in 1..Len(blectures) :
            \A course \in {c \in Range(courses) : c.CourseID = blectures[n].course_id} :
                (\E instructor \in Range(instructors) : Qualified(instructor, course.CourseID)) =>
                    /\ get_variable_name(blectures[n]) \in DOMAIN bdomains
                    /\ \E d \in {bdomains[get_variable_name(blectures[n])]} :
                          /\ Range(d) = LegalTriples(course)
                          /\ \A j, k \in 1..Len(d) : j < k => LoopOrder(d[j], d[k])

\* A domain was built that holds two timeslots, at one timeslot two rooms, in
\* one room at one timeslot two instructors, and that leaves out a qualified
\* instructor at a timeslot of the day the instructor excludes, in a cell
\* with white space before "Not on" and after the day.
C26_Witness ==
    /\ bpc = "built"
    /\ \E n \in 1..Len(blectures) :
          /\ get_variable_name(blectures[n]) \in DOMAIN bdomains
          /\ \E d \in {bdomains[get_variable_name(blectures[n])]} :
                /\ \E j, k \in 1..Len(d) : d[j][1] # d[k][1]
                /\ \E j, k \in 1..Len(d) : d[j][1] = d[k][1] /\ d[j][2] # d[k][2]
                /\ \E j, k \in 1..Len(d) :
                      d[j][1] = d[k][1] /\ d[j][2] = d[k][2] /\ d[j][3] # d[k][3]
                /\ \E instructor \in Range(instructors), ts \in Range(timeslots) :
                      /\ Qualified(instructor, blectures[n].course_id)
                      /\ ExcludesDay(instructor, ts.Day)
                      /\ CharAt(instructor.PreferredSlots, 1) \in Whitespace
                      /\ CharAt(instructor.PreferredSlots, Len(instructor.PreferredSlots)) \in Whitespace
                      /\ \A k \in 1..Len(d) :
                            ~(d[k][1] = ts.TimeSlotID /\ d[k][3] = instructor.InstructorID)

\* The sessions of a section, and of an instructor, on a weekday.
SectionSessions(a, lecs, s, d) ==
    {v \in DOMAIN a : s \in SectionsOf(v, lecs) /\ DayOf(TimeslotOf(a[v])) = d}
InstructorSessions(a, i, d) ==
    {v \in DOMAIN a : InstructorOf(a[v]) = i /\ DayOf(TimeslotOf(a[v])) = d}

\* The weekday schedules of the timetable: the sessions of every section and
\* of every instructor on every weekday.
Schedules(a, lecs) ==
    LET days == {timeslots[k].Day : k \in 1..Len(timeslots)}
        K == ({"section"} \X {lecs[i].section_id : i \in 1..Len(lecs)} \X days)
             \cup ({"instructor"} \X {InstructorOf(a[v]) : v \in DOMAIN a} \X days)
    IN  [k \in K |-> IF k[1] = "section" THEN SectionSessions(a, lecs, k[2], k[3])
                     ELSE InstructorSessions(a, k[2], k[3])]

\* Timeslot t2 is the slot right after t1 on the weekday of both.
NextSlotOfDay(a, lecs, vs, t1, t2) ==
    DayOf(t1) = DayOf(t2) /\ PositionInDay(t2) = PositionInDay(t1) + 1

\* The code examines the pair (t1, t2) of the schedule vs: the two timeslots
\* follow each other in the sorted list and in all_slots.
ExaminedByCode(a, lecs, vs, t1, t2) ==
    \E sorted_slots \in {sorted(SlotsOf(a, vs))} :
        \E i \in 1..(Len(sorted_slots) - 1) :
            /\ sorted_slots[i] = t1 /\ sorted_slots[i + 1] = t2
            /\ index(all_slots, t2) = index(all_slots, t1) + 1

\* The room of the session of the schedule vs at a timeslot, and the room the
\* code reads for the timeslot.
OwnRoom(a, vs, ts) == RoomOf(a[CHOOSE v \in vs : TimeslotOf(a[v]) = ts])
RoomReadByCode(a, vs, ts) == RoomAt(a, ts)

\* What a pair of rooms adds to the penalty, in tenths: as the code computes
\* it, and with the distance |difference of the numbers| / 5 for two ids with
\* the same first character, 0 for one id and 3 for other ids, times 8 when the
\* distance is more than 2.
CostInCode(room1, room2) ==
    LET distance == calculate_room_distance(room1, room2)
    IN  IF distance > 2 THEN 10 * distance * weights.consecutive_rooms ELSE 0
CostOfExactDistance(room1, room2) ==
    LET d == RoomParts[room1].number - RoomParts[room2].number
        tenths == IF room1 = room2 THEN 0
                  ELSE IF RoomParts[room1].first = RoomParts[room2].first
                       THEN 2 * (IF d < 0 THEN -d ELSE d)
                       ELSE 30
    IN  IF tenths > 20 THEN tenths * 8 ELSE 0

\* The room-distance penalty, in tenths, that adds Cost of the two rooms Room
\* gives for every pair of sessions of one weekday schedule that Pair holds.
PenaltyOf(a, lecs, Pair(_, _, _, _, _), Room(_, _, _), Cost(_, _)) ==
    LET schedules == Schedules(a, lecs)
        slots(vs) == {TimeslotOf(a[v]) : v \in vs}
    IN  SumOf([k \in DOMAIN schedules |->
                  SumOf([p \in {q \in slots(schedules[k]) \X slots(schedules[k]) :
                                    Pair(a, lecs, schedules[k], q[1], q[2])} |->
                            Cost(Room(a, schedules[k], p[1]), Room(a, schedules[k], p[2]))])])

\* A call of calculate_quality_score on the timetable of the caller returned.
Scored == sret.status = "returned" /\ sret.method = "calculate_quality_score"

\* C27 (the rooms of the two sessions themselves): the room-distance penalty
\* that calculate_quality_score computed is the one that takes, for every pair
\* of sessions of a section's or an instructor's weekday schedule that the
\* code examines, the rooms of those two sessions of that section or
\* instructor, also when other sections have lectures at the same timeslots.
C27_RoomsOfTheSameSchedule ==
    Scored =>
        10 * sret.room = PenaltyOf(sargs.assignment, sargs.lectures,
                                   ExaminedByCode, OwnRoom, CostInCode)

\* C28 (every adjacent pair, no other pair): the room-distance penalty that
\* calculate_quality_score computed is the one that examines exactly the pairs
\* of sessions of a section's or an instructor's weekday schedule that stand
\* at adjacent slots of the weekday, TS9 and TS10 included.
C28_EveryAdjacentPairExamined ==
    Scored =>
        10 * sret.room = PenaltyOf(sargs.assignment, sargs.lectures,
                                   NextSlotOfDay, RoomReadByCode, CostInCode)

\* C29 (distance and threshold): the room-distance penalty that
\* calculate_quality_score computed adds, for every examined pair, 8 times the
\* distance of the two rooms when the distance is more than 2, the distance
\* being 0 for one room id, |difference of the numbers| / 5 for two ids with
\* the same first character and 3 otherwise (a difference of more than 10 is
\* penalised).
C29_DistanceOverFive ==
    Scored =>
        10 * sret.room = PenaltyOf(sargs.assignment, sargs.lectures,
                                   ExaminedByCode, RoomReadByCode, CostOfExactDistance)

\* The threads that are running run_solver.
Running == {t \in 1..Len(threads) : threads[t].pc # "done"}

\* The threads whose lectures, solver or solution the handler of the last
\* success message has read.
ReadByHandler == (shown.solution \cup shown.lectures \cup shown.solver) \ {0}

\* C30 (one solver thread, one run behind a success message): at most one
\* thread is running run_solver at a time, and what on_solution_found reads as
\* lectures, solver and solution was stored by the thread that put the success
\* message it handles.
C30_OneRunAtATime ==
    /\ Cardinality(Running) <= 1
    /\ shown.message # 0 => ReadByHandler \subseteq {shown.message}

====
